---- MODULE Spec2Model ----
(***************************************************************************)
(* A model of the Stripe synchronisation engine of wizarr                  *)
(* (app/services/stripe_sync/stripe_sync.py): the event router             *)
(* (process_event), the per-kind upsert operations with their referential  *)
(* backfill, the reconciliation helpers and the relational store they      *)
(* write to.                                                               *)
(*                                                                         *)
(* Every operation of StripeSync is an operator from a call context        *)
(* (the store, the error raised so far, the source-API calls made, the     *)
(* rows handed to the store) to a call context; an action of the model     *)
(* runs one whole public operation and commits the context it ends with.   *)
(* The source API is external: the answers it gives during one call are    *)
(* drawn by the action (an "api" record) and read by the operators.        *)
(***************************************************************************)
EXTENDS Integers, FiniteSets, Sequences, TLC

VARIABLES
    store,    \* table -> id -> row | NoRow : the relational store
    now,      \* the wall clock (UTC), in ticks
    tz,       \* the host's offset of local time from UTC, in ticks
    config,   \* StripeSyncConfig: the toggles read by the engine
    focus,    \* the entity kind whose events this deployment receives
    last,     \* what the last public call did (observation only)
    replica,  \* a second deployment fed the same events: its store and
              \* what each of the two has been delivered
    run,      \* the backfill in progress: where _fetch_and_upsert stands
    user_subscriptions,
              \* the rows of UserSubscription, in the order of their ids
    handlers, \* the process_event invocations under way at once: which
              \* store statement each has reached
    invitations,
              \* the rows of Invitation the webhook route reads and writes,
              \* in the order of their ids
    service   \* StripeService: the engine instance of the process, with the
              \* application settings it is built from

vars ==
    <<store, now, tz, config, focus, last, replica, run, user_subscriptions, handlers, invitations, service>>

----------------------------------------------------------------------------
(* Bounds *)

\* The clock stops advancing at MaxTime.
MaxTime == 1

\* The longest listing the source returns to a backfill.
MaxListed == 551

\* The number of customers the store has room for.
MaxCustomers == 12

----------------------------------------------------------------------------
(* Values *)

Null == "null"

\* Optional[str] sync timestamp: <<>> is None, <<t>> is the ISO string of t.
None == <<>>

NoRow == [exists |-> FALSE]

DataVals == {"v1", "v2"}

\* Host offsets of local time from UTC.
TzOffsets == {0, 1}

Tables ==
    {"products", "prices", "plans", "customers", "subscriptions",
     "subscription_items", "subscription_schedules", "invoices", "charges",
     "setup_intents", "payment_intents", "payment_methods", "disputes",
     "credit_notes", "tax_ids", "refunds", "reviews", "early_fraud_warnings",
     "invoice_payments", "checkout_sessions", "checkout_session_line_items",
     "active_entitlements", "features"}

CustomerId(k) == "cus_" \o ToString(k)

\* The external ids the model uses, per table.
IdsOf(table) ==
    CASE table = "products" -> {"prod_1"}
      [] table = "prices" -> {"price_1"}
      [] table = "plans" -> {"plan_1"}
      [] table = "customers" -> {CustomerId(k) : k \in 1..MaxCustomers}
      [] table = "subscriptions" -> {"sub_1"}
      [] table = "subscription_items" -> {"si_A", "si_B"}
      [] table = "subscription_schedules" -> {"sub_sched_1"}
      [] table = "invoices" -> {"in_1"}
      [] table = "charges" -> {"ch_1"}
      [] table = "setup_intents" -> {"seti_1"}
      [] table = "payment_intents" -> {"pi_1"}
      [] table = "payment_methods" -> {"pm_1", "pm_2"}
      [] table = "disputes" -> {"dp_1"}
      [] table = "credit_notes" -> {"cn_1"}
      [] table = "tax_ids" -> {"txi_1"}
      [] table = "refunds" -> {"re_1"}
      [] table = "reviews" -> {"prv_1"}
      [] table = "early_fraud_warnings" -> {"issfr_1"}
      [] table = "invoice_payments" -> {"inpay_1"}
      [] table = "checkout_sessions" -> {"cs_1"}
      [] table = "checkout_session_line_items" -> {"li_1"}
      [] table = "active_entitlements" -> {"ent_X", "ent_Y", "ent_Z"}
      [] table = "features" -> {"feat_1"}

\* The scalar properties an entity record may carry besides its id.
Columns ==
    {"object", "data", "status", "deleted", "customer", "subscription",
     "invoice", "product", "price", "payment_intent", "charge", "feature",
     "checkout_session"}

----------------------------------------------------------------------------
(* Entity schemas: the properties each table's upsert persists.  The many  *)
(* business properties of a kind (name, email, metadata, amounts ...) are  *)
(* one column "data".                                                      *)

product_schema == {"object", "data"}

customer_schema == {"object", "data"}

customer_deleted_schema == {"object", "deleted"}

plan_schema == {"object", "data", "product"}

subscription_item_schema ==
    {"object", "data", "deleted", "price", "subscription"}

active_entitlement_schema == {"object", "feature", "customer"}

checkout_session_line_item_schema ==
    {"object", "data", "price", "checkout_session"}

tax_id_schema == {"object", "data", "customer"}

payment_methods_schema == {"object", "data", "customer"}

early_fraud_warning_schema == {"object", "data", "charge", "payment_intent"}

refund_schema == {"object", "data", "status", "charge", "payment_intent"}

review_schema == {"object", "data", "charge", "payment_intent"}

\* The nested "payment" property is the pair of its payment_intent and charge.
invoice_payment_schema ==
    {"object", "data", "status", "invoice", "payment_intent", "charge"}

\* Schemas whose files are not part of the sources: the properties the
\* engine itself reads from the kind's objects.
price_schema == {"object", "data", "product"}

subscription_schema == {"object", "data", "status", "customer"}

invoice_schema == {"object", "data", "status", "customer", "subscription"}

charge_schema ==
    {"object", "data", "status", "customer", "invoice", "payment_intent"}

payment_intent_schema == {"object", "data", "status", "customer", "invoice"}

checkout_session_schema ==
    {"object", "data", "customer", "subscription", "payment_intent", "invoice"}

setup_intents_schema == {"object", "data", "status", "customer"}

subscription_schedule_schema == {"object", "data", "status", "customer"}

dispute_schema == {"object", "data", "status", "charge"}

credit_note_schema == {"object", "data", "status", "customer", "invoice"}

feature_schema == {"object", "data"}

----------------------------------------------------------------------------
(* Entity records (the objects of the source platform)                     *)

NoList == [present |-> FALSE, data |-> <<>>, has_more |-> FALSE]

\* An object of the given kind with every optional property absent.
Blank(object, id) ==
    [id |-> id, object |-> object, data |-> Null, status |-> Null,
     deleted |-> Null, customer |-> Null, subscription |-> Null,
     invoice |-> Null, product |-> Null, price |-> Null,
     payment_intent |-> Null, charge |-> Null, feature |-> Null,
     checkout_session |-> Null, items |-> NoList]

\* Python truthiness of a scalar property (None and False are falsy).
Truthy(v) == v # Null /\ v # "false"

----------------------------------------------------------------------------
(* The call context                                                        *)

\* The context a public call starts with.
CtxOf(rows) ==
    [store |-> rows, err |-> "none", calls |-> <<>>, handed |-> {},
     deleted |-> {}, returned |-> Null]

NewCtx == CtxOf(store)

Ok(c) == c.err = "none"

\* An exception: the steps that follow are skipped.
Raise(c, code) == IF Ok(c) THEN [c EXCEPT !.err = code] ELSE c

\* A call of the source API is on record whether or not it succeeds.
Called(c, op, table, id, r) ==
    IF Ok(c)
    THEN [c EXCEPT !.calls =
             Append(@, [op |-> op, table |-> table, id |-> id,
                        outcome |-> IF r.ok THEN "ok" ELSE r.code,
                        ids |-> IF ~r.ok THEN {}
                                ELSE IF op = "list"
                                THEN {r.data[k].id : k \in 1..Len(r.data)}
                                ELSE {r.entity.id}])]
    ELSE c

----------------------------------------------------------------------------
(* The relational store (PostgresClient)                                   *)

\* The stored row after one guarded insert-or-update of a record.
GuardRejects(old, ts) ==
    /\ old.exists
    /\ ts # None
    /\ old.last_synced_at # None
    /\ old.last_synced_at[1] > ts[1]

UpsertRow(old, entity, schema, ts, clock) ==
    IF GuardRejects(old, ts)
    THEN old
    ELSE [exists |-> TRUE,
          cols |-> [col \in Columns |->
                       IF col \in schema THEN entity[col]
                       ELSE IF old.exists THEN old.cols[col] ELSE Null],
          last_synced_at |-> IF ts = None THEN <<clock>> ELSE ts]

RECURSIVE UpsertAll(_, _, _, _, _, _)
UpsertAll(rows, entries, k, schema, ts, clock) ==
    IF k > Len(entries) THEN rows
    ELSE UpsertAll(
             [rows EXCEPT ![entries[k].id] =
                 UpsertRow(@, entries[k], schema, ts, clock)],
             entries, k + 1, schema, ts, clock)

upsert_many_with_timestamp_protection(c, entries, table, schema, ts) ==
    IF ~Ok(c) THEN c
    ELSE [c EXCEPT
            !.store[table] = UpsertAll(@, entries, 1, schema, ts, now),
            !.handed = @ \cup {[table |-> table, id |-> entries[k].id,
                                ts |-> ts, entity |-> entries[k],
                                schema |-> schema,
                                rejected |-> GuardRejects(
                                    c.store[table][entries[k].id], ts)] :
                               k \in 1..Len(entries)}]

\* Hard delete by primary key.
delete(c, table, id) ==
    IF ~Ok(c) THEN c
    ELSE [c EXCEPT !.store[table][id] = NoRow,
                   !.deleted = @ \cup {<<table, id>>}]

\* The candidate ids with no live row in the table.
find_missing_entries(c, table, ids) ==
    {i \in ids : ~(/\ c.store[table][i].exists
                   /\ c.store[table][i].cols["deleted"] # "true")}

----------------------------------------------------------------------------
(* Helpers of stripe_sync.py                                               *)

\* The distinct truthy values of a property over a batch.
get_unique_ids(entries, key) ==
    {entries[k][key] : k \in {j \in 1..Len(entries) : Truthy(entries[j][key])}}

\* Some enumeration of a finite set (the iteration order of a Python set).
RECURSIVE SetToSeq(_)
SetToSeq(S) ==
    IF S = {} THEN <<>>
    ELSE LET x == CHOOSE y \in S : TRUE IN <<x>> \o SetToSeq(S \ {x})

\* A local name for a value computed once (a Python assignment).
Bind(value, Rest(_)) == Rest(value)

\* A faulty variant: the configured toggle is enough whatever the call says.
BackfillRequestedOrConfigured(backfill_related_entities) ==
    backfill_related_entities = "True" \/ config.backfill_related_entities

\* The per-call value of backfill_related_entities, or the configured one.
BackfillRequested(backfill_related_entities) ==
    IF backfill_related_entities # "None"
    THEN backfill_related_entities = "True"
    ELSE config.backfill_related_entities

\* Fetch the ids one at a time; the first failure raises.
RECURSIVE FetchEach(_, _, _, _, _)
FetchEach(c, ids, k, table, api) ==
    IF k > Len(ids) \/ ~Ok(c) THEN [ctx |-> c, entities |-> <<>>]
    ELSE LET r == api.retrieve[table][ids[k]]
             c1 == Called(c, "retrieve", table, ids[k], r)
         IN  IF ~r.ok THEN [ctx |-> Raise(c1, r.code), entities |-> <<>>]
             ELSE LET rest == FetchEach(c1, ids, k + 1, table, api)
                  IN  [ctx |-> rest.ctx,
                       entities |-> <<r.entity>> \o rest.entities]

\* A faulty variant: an entity that cannot be fetched is left out and the
\* failure is not raised.
RECURSIVE FetchEachFound(_, _, _, _, _)
FetchEachFound(c, ids, k, table, api) ==
    IF k > Len(ids) \/ ~Ok(c) THEN [ctx |-> c, entities |-> <<>>]
    ELSE LET r == api.retrieve[table][ids[k]]
             rest == FetchEachFound(
                         Called(c, "retrieve", table, ids[k], r),
                         ids, k + 1, table, api)
         IN  [ctx |-> rest.ctx,
              entities |-> (IF r.ok THEN <<r.entity>> ELSE <<>>)
                              \o rest.entities]

_fetch_missing_entities_lenient(c, ids, table, api) ==
    FetchEachFound(c, SetToSeq(ids), 1, table, api)

_fetch_missing_entities(c, ids, table, api) ==
    IF ids = {} \/ ~Ok(c) THEN [ctx |-> c, entities |-> <<>>]
    ELSE FetchEach(c, SetToSeq(ids), 1, table, api)

----------------------------------------------------------------------------
(* Customers, products, prices, plans                                      *)

\* A faulty variant: the customers are written without their sync timestamp.
_upsert_customers_unstamped(c, customers, sync_timestamp) ==
    upsert_many_with_timestamp_protection(
        upsert_many_with_timestamp_protection(
            c, SelectSeq(customers, LAMBDA x : ~Truthy(x.deleted)),
            "customers", customer_schema, None),
        SelectSeq(customers, LAMBDA x : Truthy(x.deleted)),
        "customers", customer_deleted_schema, None)

\* A faulty variant: every customer is written with the full schema.
_upsert_customers_full(c, customers, sync_timestamp) ==
    upsert_many_with_timestamp_protection(
        c, customers, "customers", customer_schema, sync_timestamp)

_upsert_customers(c, customers, sync_timestamp) ==
    LET deleted_customers == SelectSeq(customers, LAMBDA x : Truthy(x.deleted))
        non_deleted_customers ==
            SelectSeq(customers, LAMBDA x : ~Truthy(x.deleted))
        c1 == upsert_many_with_timestamp_protection(
                  c, non_deleted_customers, "customers", customer_schema,
                  sync_timestamp)
    IN  upsert_many_with_timestamp_protection(
            c1, deleted_customers, "customers", customer_deleted_schema,
            sync_timestamp)

_backfill_customers(c, customer_ids, api) ==
    LET missing_ids == find_missing_entries(c, "customers", customer_ids)
    IN  Bind(_fetch_missing_entities(c, missing_ids, "customers", api),
             LAMBDA got :
                 _upsert_customers(got.ctx, got.entities, None))

_upsert_products(c, products, sync_timestamp) ==
    upsert_many_with_timestamp_protection(
        c, products, "products", product_schema, sync_timestamp)

\* A faulty variant: the product row is left in place.
_delete_product_skipped(c, id) == c

_delete_product(c, id) == delete(c, "products", id)

_backfill_products(c, product_ids, api) ==
    LET missing_ids == find_missing_entries(c, "products", product_ids)
    IN  Bind(_fetch_missing_entities(c, missing_ids, "products", api),
             LAMBDA got :
                 _upsert_products(got.ctx, got.entities, None))

_upsert_prices(c, prices, backfill_related_entities, sync_timestamp, api) ==
    LET c1 == IF BackfillRequested(backfill_related_entities)
              THEN _backfill_products(c, get_unique_ids(prices, "product"), api)
              ELSE c
    IN  upsert_many_with_timestamp_protection(
            c1, prices, "prices", price_schema, sync_timestamp)

_delete_price(c, id) == delete(c, "prices", id)

_backfill_prices(c, price_ids, api) ==
    LET missing_ids == find_missing_entries(c, "prices", price_ids)
    IN  Bind(_fetch_missing_entities(c, missing_ids, "prices", api),
             LAMBDA got :
                 _upsert_prices(got.ctx, got.entities, "None", None, api))

_upsert_plans(c, plans, backfill_related_entities, sync_timestamp, api) ==
    LET c1 == IF BackfillRequested(backfill_related_entities)
              THEN _backfill_products(c, get_unique_ids(plans, "product"), api)
              ELSE c
    IN  upsert_many_with_timestamp_protection(
            c1, plans, "plans", plan_schema, sync_timestamp)

_delete_plan(c, id) == delete(c, "plans", id)

----------------------------------------------------------------------------
(* List expansion                                                          *)

\* The entities with every truncated embedded list drained from the source.
RECURSIVE ExpandEach(_, _, _, _, _)
ExpandEach(c, entities, k, listing, api) ==
    IF k > Len(entities) \/ ~Ok(c) THEN [ctx |-> c, entities |-> <<>>]
    ELSE LET e == entities[k]
             expand == e.items.present /\ e.items.has_more
             r == api.list[listing][e.id]
             c1 == IF expand THEN Called(c, "list", listing, e.id, r) ELSE c
             c2 == IF expand /\ ~r.ok THEN Raise(c1, r.code) ELSE c1
             e1 == IF expand /\ r.ok
                   THEN [e EXCEPT !.items =
                            [present |-> TRUE, data |-> r.data,
                             has_more |-> FALSE]]
                   ELSE e
             rest == ExpandEach(c2, entities, k + 1, listing, api)
         IN  [ctx |-> rest.ctx, entities |-> <<e1>> \o rest.entities]

\* A faulty variant: a truncated list is left as the source delivered it.
_expand_entity_off(c, entities, listing, api) ==
    [ctx |-> c, entities |-> entities]

_expand_entity(c, entities, listing, api) ==
    IF ~config.auto_expand_lists \/ ~Ok(c)
    THEN [ctx |-> c, entities |-> entities]
    ELSE ExpandEach(c, entities, 1, listing, api)

----------------------------------------------------------------------------
(* Subscriptions and their items                                           *)

\* A faulty variant: the items are written without their sync timestamp.
_upsert_subscription_items_unguarded(c, subscription_items, sync_timestamp) ==
    upsert_many_with_timestamp_protection(
        c, [k \in 1..Len(subscription_items) |->
               [subscription_items[k] EXCEPT
                   !.deleted = IF @ = Null THEN "false" ELSE @]],
        "subscription_items", subscription_item_schema, None)

_upsert_subscription_items(c, subscription_items, sync_timestamp) ==
    LET modified_items ==
            [k \in 1..Len(subscription_items) |->
                [subscription_items[k] EXCEPT
                    !.deleted = IF @ = Null THEN "false" ELSE @]]
    IN  upsert_many_with_timestamp_protection(
            c, modified_items, "subscription_items",
            subscription_item_schema, sync_timestamp)

\* A faulty variant: no item is marked.
_mark_deleted_subscription_items_skipped(c, subscription_id, current_sub_item_ids) == c

\* A faulty variant: the rows of the absent items are removed, not flagged.
_mark_deleted_subscription_items_removing(c, subscription_id, current_sub_item_ids) ==
    IF ~Ok(c) THEN c
    ELSE [c EXCEPT !.store["subscription_items"] =
             [i \in IdsOf("subscription_items") |->
                 IF /\ @[i].exists
                    /\ @[i].cols["subscription"] = subscription_id
                    /\ @[i].cols["deleted"] = "false"
                    /\ i \notin current_sub_item_ids
                 THEN NoRow
                 ELSE @[i]]]

_mark_deleted_subscription_items(c, subscription_id, current_sub_item_ids) ==
    LET rows == {i \in IdsOf("subscription_items") :
                    /\ c.store["subscription_items"][i].exists
                    /\ c.store["subscription_items"][i].cols["subscription"]
                         = subscription_id
                    /\ c.store["subscription_items"][i].cols["deleted"]
                         = "false"}
        deleted_ids == {i \in rows : i \notin current_sub_item_ids}
    IN  IF ~Ok(c) THEN c
        ELSE [c EXCEPT !.store["subscription_items"] =
                 [i \in IdsOf("subscription_items") |->
                     IF i \in deleted_ids
                     THEN [@[i] EXCEPT !.cols["deleted"] = "true"]
                     ELSE @[i]]]

\* The ids of the items a subscription record carries.
ItemIds(subscription) ==
    {subscription.items.data[k].id : k \in 1..Len(subscription.items.data)}

RECURSIVE AllItems(_, _)
AllItems(subscriptions, k) ==
    IF k > Len(subscriptions) THEN <<>>
    ELSE subscriptions[k].items.data \o AllItems(subscriptions, k + 1)

RECURSIVE MarkEach(_, _, _)
MarkEach(c, subscriptions, k) ==
    IF k > Len(subscriptions) THEN c
    ELSE MarkEach(
             _mark_deleted_subscription_items(
                 c, subscriptions[k].id, ItemIds(subscriptions[k])),
             subscriptions, k + 1)

_upsert_subscriptions(c, subs, backfill_related_entities, sync_timestamp, api) ==
    LET c1 == IF BackfillRequested(backfill_related_entities)
              THEN _backfill_customers(c, get_unique_ids(subs, "customer"), api)
              ELSE c
    IN  Bind(_expand_entity(c1, subs, "subscription_items", api),
             LAMBDA ex :
                 MarkEach(
                     _upsert_subscription_items(
                         upsert_many_with_timestamp_protection(
                             ex.ctx, ex.entities, "subscriptions",
                             subscription_schema, sync_timestamp),
                         AllItems(ex.entities, 1), sync_timestamp),
                     ex.entities, 1))

_backfill_subscriptions(c, subscription_ids, api) ==
    LET missing_ids == find_missing_entries(c, "subscriptions", subscription_ids)
    IN  Bind(_fetch_missing_entities(c, missing_ids, "subscriptions", api),
             LAMBDA got :
                 _upsert_subscriptions(got.ctx, got.entities, "None", None, api))

----------------------------------------------------------------------------
(* Invoices, payment intents, charges, checkout sessions                   *)

_upsert_invoices(c, invoices, backfill_related_entities, sync_timestamp, api) ==
    LET c1 == IF BackfillRequested(backfill_related_entities)
              THEN _backfill_subscriptions(
                       _backfill_customers(
                           c, get_unique_ids(invoices, "customer"), api),
                       get_unique_ids(invoices, "subscription"), api)
              ELSE c
    IN  Bind(_expand_entity(c1, invoices, "invoice_line_items", api),
             LAMBDA ex :
                 upsert_many_with_timestamp_protection(
                     ex.ctx, ex.entities, "invoices", invoice_schema,
                     sync_timestamp))

_backfill_invoices(c, invoice_ids, api) ==
    LET missing_ids == find_missing_entries(c, "invoices", invoice_ids)
    IN  Bind(_fetch_missing_entities(c, missing_ids, "invoices", api),
             LAMBDA got :
                 _upsert_invoices(got.ctx, got.entities, "None", None, api))

_upsert_payment_intents(c, payment_intents, backfill_related_entities, sync_timestamp, api) ==
    LET c1 == IF BackfillRequested(backfill_related_entities)
              THEN _backfill_invoices(
                       _backfill_customers(
                           c, get_unique_ids(payment_intents, "customer"), api),
                       get_unique_ids(payment_intents, "invoice"), api)
              ELSE c
    IN  upsert_many_with_timestamp_protection(
            c1, payment_intents, "payment_intents", payment_intent_schema,
            sync_timestamp)

_backfill_payment_intents(c, payment_intent_ids, api) ==
    LET missing_ids == find_missing_entries(c, "payment_intents", payment_intent_ids)
    IN  Bind(_fetch_missing_entities(c, missing_ids, "payment_intents", api),
             LAMBDA got :
                 _upsert_payment_intents(got.ctx, got.entities, "None", None, api))

_upsert_charges(c, charges, backfill_related_entities, sync_timestamp, api) ==
    LET c1 == IF BackfillRequested(backfill_related_entities)
              THEN _backfill_invoices(
                       _backfill_customers(
                           c, get_unique_ids(charges, "customer"), api),
                       get_unique_ids(charges, "invoice"), api)
              ELSE c
    IN  Bind(_expand_entity(c1, charges, "refunds", api),
             LAMBDA ex :
                 upsert_many_with_timestamp_protection(
                     ex.ctx, ex.entities, "charges", charge_schema,
                     sync_timestamp))

_backfill_charges(c, charge_ids, api) ==
    LET missing_ids == find_missing_entries(c, "charges", charge_ids)
    IN  Bind(_fetch_missing_entities(c, missing_ids, "charges", api),
             LAMBDA got :
                 _upsert_charges(got.ctx, got.entities, "None", None, api))

_upsert_checkout_session_line_items(c, line_items, checkout_session_id, sync_timestamp, api) ==
    LET price_ids == get_unique_ids(line_items, "price")
        c1 == _backfill_prices(c, price_ids, api)
        modified_items ==
            [k \in 1..Len(line_items) |->
                [line_items[k] EXCEPT
                    !.checkout_session = checkout_session_id]]
    IN  upsert_many_with_timestamp_protection(
            c1, modified_items, "checkout_session_line_items",
            checkout_session_line_item_schema, sync_timestamp)

\* The line items of every session are listed from the source, to the end.
RECURSIVE _fill_checkout_sessions_line_items(_, _, _, _, _)
_fill_checkout_sessions_line_items(c, checkout_session_ids, k, sync_timestamp, api) ==
    IF k > Len(checkout_session_ids) \/ ~Ok(c) THEN c
    ELSE LET id == checkout_session_ids[k]
             r == api.list["checkout_session_line_items"][id]
             c1 == Called(c, "list", "checkout_session_line_items", id, r)
             c2 == IF r.ok
                   THEN _upsert_checkout_session_line_items(
                            c1, r.data, id, sync_timestamp, api)
                   ELSE Raise(c1, r.code)
         IN  _fill_checkout_sessions_line_items(
                 c2, checkout_session_ids, k + 1, sync_timestamp, api)

_upsert_checkout_sessions(c, checkout_sessions, backfill_related_entities, sync_timestamp, api) ==
    LET c1 == IF BackfillRequested(backfill_related_entities)
              THEN _backfill_invoices(
                       _backfill_payment_intents(
                           _backfill_subscriptions(
                               _backfill_customers(
                                   c,
                                   get_unique_ids(checkout_sessions, "customer"),
                                   api),
                               get_unique_ids(checkout_sessions, "subscription"),
                               api),
                           get_unique_ids(checkout_sessions, "payment_intent"),
                           api),
                       get_unique_ids(checkout_sessions, "invoice"), api)
              ELSE c
        rows == upsert_many_with_timestamp_protection(
                    c1, checkout_sessions, "checkout_sessions",
                    checkout_session_schema, sync_timestamp)
    IN  _fill_checkout_sessions_line_items(
            rows,
            [k \in 1..Len(checkout_sessions) |-> checkout_sessions[k].id],
            1, sync_timestamp, api)

----------------------------------------------------------------------------
(* Setup intents, schedules, disputes, credit notes                        *)

_upsert_setup_intents(c, setup_intents, backfill_related_entities, sync_timestamp, api) ==
    LET c1 == IF BackfillRequested(backfill_related_entities)
              THEN _backfill_customers(
                       c, get_unique_ids(setup_intents, "customer"), api)
              ELSE c
    IN  upsert_many_with_timestamp_protection(
            c1, setup_intents, "setup_intents", setup_intents_schema,
            sync_timestamp)

_upsert_subscription_schedules(c, subscription_schedules, backfill_related_entities, sync_timestamp, api) ==
    LET c1 == IF BackfillRequested(backfill_related_entities)
              THEN _backfill_customers(
                       c, get_unique_ids(subscription_schedules, "customer"),
                       api)
              ELSE c
    IN  upsert_many_with_timestamp_protection(
            c1, subscription_schedules, "subscription_schedules",
            subscription_schedule_schema, sync_timestamp)

_upsert_disputes(c, disputes, backfill_related_entities, sync_timestamp, api) ==
    LET c1 == IF BackfillRequested(backfill_related_entities)
              THEN _backfill_charges(c, get_unique_ids(disputes, "charge"), api)
              ELSE c
    IN  upsert_many_with_timestamp_protection(
            c1, disputes, "disputes", dispute_schema, sync_timestamp)

_upsert_credit_notes(c, credit_notes, backfill_related_entities, sync_timestamp, api) ==
    LET c1 == IF BackfillRequested(backfill_related_entities)
              THEN _backfill_invoices(
                       _backfill_customers(
                           c, get_unique_ids(credit_notes, "customer"), api),
                       get_unique_ids(credit_notes, "invoice"), api)
              ELSE c
    IN  Bind(_expand_entity(c1, credit_notes, "credit_note_line_items", api),
             LAMBDA ex :
                 upsert_many_with_timestamp_protection(
                     ex.ctx, ex.entities, "credit_notes", credit_note_schema,
                     sync_timestamp))

----------------------------------------------------------------------------
(* Tax ids, payment methods, fraud warnings, refunds, reviews, payments    *)

_upsert_tax_ids(c, tax_ids, backfill_related_entities, sync_timestamp, api) ==
    LET c1 == IF BackfillRequested(backfill_related_entities)
              THEN _backfill_customers(
                       c, get_unique_ids(tax_ids, "customer"), api)
              ELSE c
    IN  upsert_many_with_timestamp_protection(
            c1, tax_ids, "tax_ids", tax_id_schema, sync_timestamp)

\* A faulty variant: the tax id's row is left in place.
_delete_tax_id_skipped(c, id) == c

_delete_tax_id(c, id) == delete(c, "tax_ids", id)

_upsert_payment_methods(c, payment_methods, backfill_related_entities, sync_timestamp, api) ==
    LET c1 == IF BackfillRequested(backfill_related_entities)
              THEN _backfill_customers(
                       c, get_unique_ids(payment_methods, "customer"), api)
              ELSE c
    IN  upsert_many_with_timestamp_protection(
            c1, payment_methods, "payment_methods", payment_methods_schema,
            sync_timestamp)

\* The backfill shared by fraud warnings, refunds and reviews.
BackfillPaymentIntentsAndCharges(c, entries, api) ==
    _backfill_charges(
        _backfill_payment_intents(
            c, get_unique_ids(entries, "payment_intent"), api),
        get_unique_ids(entries, "charge"), api)

_upsert_early_fraud_warning(c, early_fraud_warnings, backfill_related_entities, sync_timestamp, api) ==
    LET c1 == IF BackfillRequested(backfill_related_entities)
              THEN BackfillPaymentIntentsAndCharges(
                       c, early_fraud_warnings, api)
              ELSE c
    IN  upsert_many_with_timestamp_protection(
            c1, early_fraud_warnings, "early_fraud_warnings",
            early_fraud_warning_schema, sync_timestamp)

_upsert_refunds(c, refunds, backfill_related_entities, sync_timestamp, api) ==
    LET c1 == IF BackfillRequested(backfill_related_entities)
              THEN BackfillPaymentIntentsAndCharges(c, refunds, api)
              ELSE c
    IN  upsert_many_with_timestamp_protection(
            c1, refunds, "refunds", refund_schema, sync_timestamp)

_upsert_reviews(c, reviews, backfill_related_entities, sync_timestamp, api) ==
    LET c1 == IF BackfillRequested(backfill_related_entities)
              THEN BackfillPaymentIntentsAndCharges(c, reviews, api)
              ELSE c
    IN  upsert_many_with_timestamp_protection(
            c1, reviews, "reviews", review_schema, sync_timestamp)

\* payment.type is 'payment_intent' when the payment names a payment
\* intent and 'charge' when it names a charge.
_upsert_invoice_payments(c, invoice_payments, backfill_related_entities, sync_timestamp, api) ==
    LET payment_intent_ids == get_unique_ids(invoice_payments, "payment_intent")
        charge_ids ==
            get_unique_ids(
                SelectSeq(invoice_payments,
                          LAMBDA x : ~Truthy(x.payment_intent)),
                "charge")
        c1 == IF BackfillRequested(backfill_related_entities)
              THEN _backfill_charges(
                       _backfill_payment_intents(
                           _backfill_invoices(
                               c, get_unique_ids(invoice_payments, "invoice"),
                               api),
                           payment_intent_ids, api),
                       charge_ids, api)
              ELSE c
    IN  upsert_many_with_timestamp_protection(
            c1, invoice_payments, "invoice_payments", invoice_payment_schema,
            sync_timestamp)

----------------------------------------------------------------------------
(* Active entitlements and features                                        *)

\* A faulty variant: no entitlement is removed.
_delete_removed_active_entitlements_skipped(c, customer_id, current_active_entitlement_ids) == c

_delete_removed_active_entitlements(c, customer_id, current_active_entitlement_ids) ==
    LET gone == {i \in IdsOf("active_entitlements") :
                    /\ c.store["active_entitlements"][i].exists
                    /\ c.store["active_entitlements"][i].cols["customer"]
                         = customer_id
                    /\ i \notin current_active_entitlement_ids}
    IN  IF ~Ok(c) THEN c
        ELSE [c EXCEPT
                !.store["active_entitlements"] =
                    [i \in IdsOf("active_entitlements") |->
                        IF i \in gone THEN NoRow ELSE @[i]],
                !.deleted = @ \cup {<<"active_entitlements", i>> : i \in gone}]

_upsert_features(c, features, sync_timestamp) ==
    upsert_many_with_timestamp_protection(
        c, features, "features", feature_schema, sync_timestamp)

_backfill_features(c, feature_ids, api) ==
    LET missing_ids == find_missing_entries(c, "features", feature_ids)
    IN  Bind(_fetch_missing_entities(c, missing_ids, "features", api),
             LAMBDA got :
                 _upsert_features(got.ctx, got.entities, None))

_upsert_active_entitlements(c, customer_id, active_entitlements, backfill_related_entities, sync_timestamp, api) ==
    LET c1 == IF BackfillRequested(backfill_related_entities)
              THEN _backfill_features(
                       _backfill_customers(
                           c, get_unique_ids(active_entitlements, "customer"),
                           api),
                       get_unique_ids(active_entitlements, "feature"), api)
              ELSE c
        entitlements ==
            [k \in 1..Len(active_entitlements) |->
                [Blank(active_entitlements[k].object,
                       active_entitlements[k].id) EXCEPT
                    !.feature = active_entitlements[k].feature,
                    !.customer = customer_id]]
    IN  upsert_many_with_timestamp_protection(
            c1, entitlements, "active_entitlements",
            active_entitlement_schema, sync_timestamp)

----------------------------------------------------------------------------
(* The event router                                                        *)

ChargeEvents ==
    {"charge.captured", "charge.expired", "charge.failed", "charge.pending",
     "charge.refunded", "charge.succeeded", "charge.updated"}

CheckoutSessionEvents ==
    {"checkout.session.async_payment_failed",
     "checkout.session.async_payment_succeeded",
     "checkout.session.completed", "checkout.session.expired"}

CustomerEvents == {"customer.created", "customer.updated"}

SubscriptionEvents ==
    {"customer.subscription.created", "customer.subscription.deleted",
     "customer.subscription.paused",
     "customer.subscription.pending_update_applied",
     "customer.subscription.pending_update_expired",
     "customer.subscription.trial_will_end",
     "customer.subscription.resumed", "customer.subscription.updated"}

InvoiceEvents ==
    {"invoice.created", "invoice.deleted", "invoice.finalized",
     "invoice.finalization_failed", "invoice.paid",
     "invoice.payment_action_required", "invoice.payment_failed",
     "invoice.payment_succeeded", "invoice.upcoming", "invoice.sent",
     "invoice.voided", "invoice.marked_uncollectible", "invoice.updated"}

ProductEvents == {"product.created", "product.updated"}

PriceEvents == {"price.created", "price.updated"}

PlanEvents == {"plan.created", "plan.updated"}

SetupIntentEvents ==
    {"setup_intent.canceled", "setup_intent.created",
     "setup_intent.requires_action", "setup_intent.setup_failed",
     "setup_intent.succeeded"}

SubscriptionScheduleEvents ==
    {"subscription_schedule.aborted", "subscription_schedule.canceled",
     "subscription_schedule.completed", "subscription_schedule.created",
     "subscription_schedule.expiring", "subscription_schedule.released",
     "subscription_schedule.updated"}

DisputeEvents ==
    {"charge.dispute.created", "charge.dispute.funds_reinstated",
     "charge.dispute.funds_withdrawn", "charge.dispute.updated",
     "charge.dispute.closed"}

PaymentIntentEvents ==
    {"payment_intent.amount_capturable_updated", "payment_intent.canceled",
     "payment_intent.created", "payment_intent.partially_funded",
     "payment_intent.payment_failed", "payment_intent.processing",
     "payment_intent.requires_action", "payment_intent.succeeded"}

CreditNoteEvents ==
    {"credit_note.created", "credit_note.updated", "credit_note.voided"}

TaxIdEvents == {"customer.tax_id.updated", "customer.tax_id.created"}

PaymentMethodEvents ==
    {"payment_method.attached", "payment_method.automatically_updated",
     "payment_method.detached", "payment_method.updated"}

EarlyFraudWarningEvents ==
    {"radar.early_fraud_warning.created", "radar.early_fraud_warning.updated"}

RefundEvents ==
    {"refund.created", "refund.failed", "refund.updated",
     "charge.refund.updated"}

ReviewEvents == {"review.closed", "review.opened"}

\* A faulty variant: the event's origination time whatever the source.
_get_sync_timestamp_of_event(event, refetched) == <<event.created + tz>>

\* datetime.utcnow() for a refetched entity, else the local-time rendering
\* of the event's origination time (datetime.fromtimestamp).
_get_sync_timestamp(event, refetched) ==
    IF refetched THEN <<now>> ELSE <<event.created + tz>>

_should_refetch_entity(entity) ==
    IF config.revalidate_objects_via_stripe_api = {} THEN FALSE
    ELSE entity.object \in config.revalidate_objects_via_stripe_api

\* A faulty variant: the final state of the entity is not looked at.
_fetch_or_use_webhook_data_always(c, entity, table, entity_in_final_state, api) ==
    IF _should_refetch_entity(entity)
    THEN LET r == api.retrieve[table][entity.id]
             c1 == Called(c, "retrieve", table, entity.id, r)
         IN  IF r.ok
             THEN [ctx |-> c1, entity |-> r.entity, refetched |-> TRUE]
             ELSE [ctx |-> Raise(c1, r.code), entity |-> entity,
                   refetched |-> FALSE]
    ELSE [ctx |-> c, entity |-> entity, refetched |-> FALSE]

_fetch_or_use_webhook_data(c, entity, table, entity_in_final_state, api) ==
    IF ~Truthy(entity.id)
    THEN [ctx |-> c, entity |-> entity, refetched |-> FALSE]
    ELSE IF entity_in_final_state
    THEN [ctx |-> c, entity |-> entity, refetched |-> FALSE]
    ELSE IF _should_refetch_entity(entity)
    THEN LET r == api.retrieve[table][entity.id]
             c1 == Called(c, "retrieve", table, entity.id, r)
         IN  IF r.ok
             THEN [ctx |-> c1, entity |-> r.entity, refetched |-> TRUE]
             ELSE [ctx |-> Raise(c1, r.code), entity |-> entity,
                   refetched |-> FALSE]
    ELSE [ctx |-> c, entity |-> entity, refetched |-> FALSE]

\* A faulty variant: an event type without a handler is dropped silently.
UnhandledWebhookEventIgnored(c) == c

\* raise Exception('Unhandled webhook event')
UnhandledWebhookEvent(c) == Raise(c, "unhandled_webhook_event")

\* What a call of process_event ends with.
Done(c, refetched) == [ctx |-> c, refetched |-> refetched]

\* except stripe.error.InvalidRequestError: a missing resource is a delete,
\* every other error is raised again.
OnResourceMissing(c, Deleted(_)) ==
    IF c.err = "resource_missing" THEN Deleted([c EXCEPT !.err = "none"])
    ELSE c

process_event(c, event, api) ==
    LET type == event.type
        obj == event.object
    IN
    IF type \in ChargeEvents THEN
        LET f == _fetch_or_use_webhook_data(
                     c, obj, "charges",
                     obj.status \in {"failed", "succeeded"}, api)
        IN  Done(_upsert_charges(
                     f.ctx, <<f.entity>>, "False",
                     _get_sync_timestamp(event, f.refetched), api),
                 f.refetched)
    ELSE IF type = "customer.deleted" THEN
        LET customer == [Blank("customer", obj.id) EXCEPT !.deleted = "true"]
        IN  Done(_upsert_customers(
                     c, <<customer>>, _get_sync_timestamp(event, FALSE)),
                 FALSE)
    ELSE IF type \in CheckoutSessionEvents THEN
        LET f == _fetch_or_use_webhook_data(
                     c, obj, "checkout_sessions", FALSE, api)
        IN  Done(_upsert_checkout_sessions(
                     f.ctx, <<f.entity>>, "False",
                     _get_sync_timestamp(event, f.refetched), api),
                 f.refetched)
    ELSE IF type \in CustomerEvents THEN
        LET f == _fetch_or_use_webhook_data(
                     c, obj, "customers", obj.deleted = "true", api)
        IN  Done(_upsert_customers(
                     f.ctx, <<f.entity>>,
                     _get_sync_timestamp(event, f.refetched)),
                 f.refetched)
    ELSE IF type \in SubscriptionEvents THEN
        LET f == _fetch_or_use_webhook_data(
                     c, obj, "subscriptions",
                     obj.status \in {"canceled", "incomplete_expired"}, api)
        IN  Done(_upsert_subscriptions(
                     f.ctx, <<f.entity>>, "False",
                     _get_sync_timestamp(event, f.refetched), api),
                 f.refetched)
    ELSE IF type \in TaxIdEvents THEN
        LET f == _fetch_or_use_webhook_data(c, obj, "tax_ids", FALSE, api)
        IN  Done(_upsert_tax_ids(
                     f.ctx, <<f.entity>>, "False",
                     _get_sync_timestamp(event, f.refetched), api),
                 f.refetched)
    ELSE IF type = "customer.tax_id.deleted" THEN
        Done(_delete_tax_id(c, obj.id), FALSE)
    ELSE IF type \in InvoiceEvents THEN
        LET f == _fetch_or_use_webhook_data(
                     c, obj, "invoices", obj.status = "void", api)
        IN  Done(_upsert_invoices(
                     f.ctx, <<f.entity>>, "False",
                     _get_sync_timestamp(event, f.refetched), api),
                 f.refetched)
    ELSE IF type \in ProductEvents THEN
        LET f == _fetch_or_use_webhook_data(c, obj, "products", FALSE, api)
            c1 == _upsert_products(
                      f.ctx, <<f.entity>>,
                      _get_sync_timestamp(event, f.refetched))
        IN  Done(OnResourceMissing(
                     c1, LAMBDA x : _delete_product(x, obj.id)),
                 f.refetched)
    ELSE IF type = "product.deleted" THEN
        Done(_delete_product(c, obj.id), FALSE)
    ELSE IF type \in PriceEvents THEN
        LET f == _fetch_or_use_webhook_data(c, obj, "prices", FALSE, api)
            c1 == _upsert_prices(
                      f.ctx, <<f.entity>>, "False",
                      _get_sync_timestamp(event, f.refetched), api)
        IN  Done(OnResourceMissing(
                     c1, LAMBDA x : _delete_price(x, obj.id)),
                 f.refetched)
    ELSE IF type = "price.deleted" THEN
        Done(_delete_price(c, obj.id), FALSE)
    ELSE IF type \in PlanEvents THEN
        LET f == _fetch_or_use_webhook_data(c, obj, "plans", FALSE, api)
            c1 == _upsert_plans(
                      f.ctx, <<f.entity>>, "False",
                      _get_sync_timestamp(event, f.refetched), api)
        IN  Done(OnResourceMissing(
                     c1, LAMBDA x : _delete_plan(x, obj.id)),
                 f.refetched)
    ELSE IF type = "plan.deleted" THEN
        Done(_delete_plan(c, obj.id), FALSE)
    ELSE IF type \in SetupIntentEvents THEN
        LET f == _fetch_or_use_webhook_data(
                     c, obj, "setup_intents",
                     obj.status \in {"canceled", "succeeded"}, api)
        IN  Done(_upsert_setup_intents(
                     f.ctx, <<f.entity>>, "False",
                     _get_sync_timestamp(event, f.refetched), api),
                 f.refetched)
    ELSE IF type \in SubscriptionScheduleEvents THEN
        LET f == _fetch_or_use_webhook_data(
                     c, obj, "subscription_schedules",
                     obj.status \in {"canceled", "completed"}, api)
        IN  Done(_upsert_subscription_schedules(
                     f.ctx, <<f.entity>>, "False",
                     _get_sync_timestamp(event, f.refetched), api),
                 f.refetched)
    ELSE IF type \in PaymentMethodEvents THEN
        LET f == _fetch_or_use_webhook_data(c, obj, "payment_methods", FALSE, api)
        IN  Done(_upsert_payment_methods(
                     f.ctx, <<f.entity>>, "False",
                     _get_sync_timestamp(event, f.refetched), api),
                 f.refetched)
    ELSE IF type \in DisputeEvents THEN
        LET f == _fetch_or_use_webhook_data(
                     c, obj, "disputes", obj.status \in {"won", "lost"}, api)
        IN  Done(_upsert_disputes(
                     f.ctx, <<f.entity>>, "False",
                     _get_sync_timestamp(event, f.refetched), api),
                 f.refetched)
    ELSE IF type \in PaymentIntentEvents THEN
        LET f == _fetch_or_use_webhook_data(
                     c, obj, "payment_intents",
                     obj.status \in {"canceled", "succeeded"}, api)
        IN  Done(_upsert_payment_intents(
                     f.ctx, <<f.entity>>, "False",
                     _get_sync_timestamp(event, f.refetched), api),
                 f.refetched)
    ELSE IF type \in CreditNoteEvents THEN
        LET f == _fetch_or_use_webhook_data(
                     c, obj, "credit_notes", obj.status = "void", api)
        IN  Done(_upsert_credit_notes(
                     f.ctx, <<f.entity>>, "False",
                     _get_sync_timestamp(event, f.refetched), api),
                 f.refetched)
    ELSE IF type \in EarlyFraudWarningEvents THEN
        LET f == _fetch_or_use_webhook_data(c, obj, "early_fraud_warnings", FALSE, api)
        IN  Done(_upsert_early_fraud_warning(
                     f.ctx, <<f.entity>>, "False",
                     _get_sync_timestamp(event, f.refetched), api),
                 f.refetched)
    ELSE IF type \in RefundEvents THEN
        LET f == _fetch_or_use_webhook_data(c, obj, "refunds", FALSE, api)
        IN  Done(_upsert_refunds(
                     f.ctx, <<f.entity>>, "False",
                     _get_sync_timestamp(event, f.refetched), api),
                 f.refetched)
    ELSE IF type \in ReviewEvents THEN
        LET f == _fetch_or_use_webhook_data(c, obj, "reviews", FALSE, api)
        IN  Done(_upsert_reviews(
                     f.ctx, <<f.entity>>, "False",
                     _get_sync_timestamp(event, f.refetched), api),
                 f.refetched)
    ELSE IF type = "entitlements.active_entitlement_summary.updated" THEN
        LET summary == event.summary
            revalidate ==
                "entitlements" \in config.revalidate_objects_via_stripe_api
            r == api.list["active_entitlements"][summary.customer]
            c1 == IF revalidate
                  THEN Called(c, "list", "active_entitlements",
                              summary.customer, r)
                  ELSE c
            c2 == IF revalidate /\ ~r.ok THEN Raise(c1, r.code) ELSE c1
            entitlements == IF revalidate /\ r.ok THEN r.data
                            ELSE summary.entitlements.data
            c3 == _delete_removed_active_entitlements(
                      c2, summary.customer,
                      {entitlements[k].id : k \in 1..Len(entitlements)})
        IN  Done(_upsert_active_entitlements(
                     c3, summary.customer, entitlements, "False",
                     _get_sync_timestamp(event, revalidate), api),
                 revalidate /\ r.ok)
    ELSE IF type = "invoice_payment.paid" THEN
        LET f == _fetch_or_use_webhook_data(c, obj, "invoice_payments", FALSE, api)
        IN  Done(_upsert_invoice_payments(
                     f.ctx, <<f.entity>>, "False",
                     _get_sync_timestamp(event, f.refetched), api),
                 f.refetched)
    ELSE Done(UnhandledWebhookEvent(c), FALSE)

----------------------------------------------------------------------------
(* Single-entity sync and backfill                                         *)

\* str.startswith
startswith(s, prefix) ==
    Len(s) >= Len(prefix) /\ SubSeq(s, 1, Len(prefix)) = prefix

\* The prefixes sync_single_entity tests, in the order of its branches,
\* each with the table of the kind its branch retrieves and upserts.
Prefixes ==
    << <<"cus_", "customers">>, <<"in_", "invoices">>,
       <<"price_", "prices">>, <<"prod_", "products">>,
       <<"sub_", "subscriptions">>, <<"seti_", "setup_intents">>,
       <<"pm_", "payment_methods">>, <<"dp_", "disputes">>,
       <<"du_", "disputes">>, <<"ch_", "charges">>,
       <<"pi_", "payment_intents">>, <<"txi_", "tax_ids">>,
       <<"cn_", "credit_notes">>, <<"issfr_", "early_fraud_warnings">>,
       <<"prv_", "reviews">>, <<"re_", "refunds">>,
       <<"inpay_", "invoice_payments">>, <<"feat_", "features">>,
       <<"cs_", "checkout_sessions">> >>

\* The branches whose test an id passes.
Matching(stripe_id) ==
    {k \in 1..Len(Prefixes) : startswith(stripe_id, Prefixes[k][1])}

\* A faulty variant: the id is looked up among the known ids of each kind
\* instead of being tested for its prefix.
PrefixTableById(stripe_id) ==
    IF \E t \in Tables : stripe_id \in IdsOf(t)
    THEN CHOOSE t \in Tables : stripe_id \in IdsOf(t)
    ELSE Null

\* The table of the first branch of the if/elif chain whose prefix the id
\* starts with, if any.
PrefixTable(stripe_id) ==
    IF Matching(stripe_id) = {} THEN Null
    ELSE Prefixes[CHOOSE k \in Matching(stripe_id) :
                     \A j \in Matching(stripe_id) : k <= j][2]

\* One retrieve of the source API: the entity, or the error raised.  The
\* source holds no object of the kind under an id of another kind.
Retrieve(c, table, id, api) ==
    LET r == IF id \in DOMAIN api.retrieve[table]
             THEN api.retrieve[table][id]
             ELSE [ok |-> FALSE, code |-> "resource_missing",
                   entity |-> Blank(Null, Null), data |-> <<>>]
        c1 == Called(c, "retrieve", table, id, r)
    IN  [ctx |-> IF r.ok THEN c1 ELSE Raise(c1, r.code), entity |-> r.entity]

sync_single_entity(c, stripe_id, api) ==
    LET table == PrefixTable(stripe_id)
        got == Retrieve(c, table, stripe_id, api)
        x == got.ctx
        e == <<got.entity>>
    IN  IF table = "customers" THEN
            IF ~Truthy(got.entity.deleted)
            THEN _upsert_customers(x, e, None) ELSE x
        ELSE IF table = "invoices" THEN _upsert_invoices(x, e, "None", None, api)
        ELSE IF table = "prices" THEN _upsert_prices(x, e, "None", None, api)
        ELSE IF table = "products" THEN _upsert_products(x, e, None)
        ELSE IF table = "subscriptions" THEN
            _upsert_subscriptions(x, e, "None", None, api)
        ELSE IF table = "setup_intents" THEN
            _upsert_setup_intents(x, e, "None", None, api)
        ELSE IF table = "payment_methods" THEN
            _upsert_payment_methods(x, e, "False", None, api)
        ELSE IF table = "disputes" THEN _upsert_disputes(x, e, "None", None, api)
        ELSE IF table = "charges" THEN _upsert_charges(x, e, "True", None, api)
        ELSE IF table = "payment_intents" THEN
            _upsert_payment_intents(x, e, "None", None, api)
        ELSE IF table = "tax_ids" THEN _upsert_tax_ids(x, e, "None", None, api)
        ELSE IF table = "credit_notes" THEN
            _upsert_credit_notes(x, e, "None", None, api)
        ELSE IF table = "early_fraud_warnings" THEN
            _upsert_early_fraud_warning(x, e, "None", None, api)
        ELSE IF table = "reviews" THEN _upsert_reviews(x, e, "None", None, api)
        ELSE IF table = "refunds" THEN _upsert_refunds(x, e, "None", None, api)
        ELSE IF table = "invoice_payments" THEN
            _upsert_invoice_payments(x, e, "None", None, api)
        ELSE IF table = "features" THEN _upsert_features(x, e, None)
        ELSE IF table = "checkout_sessions" THEN
            _upsert_checkout_sessions(x, e, "None", None, api)
        ELSE c

chunk_size == 250

\* return value : what the call hands back to its caller, unless it raised.
Return(c, value) == IF Ok(c) THEN [c EXCEPT !.returned = value] ELSE c

\* List from the source and upsert what is listed, a chunk at a time, and
\* return the number of records listed (the lists of the model are shorter
\* than one chunk; the loop itself is modelled step by step further down).
_fetch_and_upsert(c, table, key, api, upsert(_, _)) ==
    LET r == api.list[table][key]
        c1 == Called(c, "list", table, key, r)
    IN  IF ~r.ok THEN Raise(c1, r.code)
        ELSE IF Len(r.data) > 0 /\ Len(r.data) < chunk_size
        THEN Return(upsert(c1, r.data), [synced |-> Len(r.data)])
        ELSE Return(c1, [synced |-> Len(r.data)])

sync_products(c, api) ==
    _fetch_and_upsert(
        c, "products", "all", api,
        LAMBDA x, products : _upsert_products(x, products, None))

sync_prices(c, backfill_related_entities, api) ==
    _fetch_and_upsert(
        c, "prices", "all", api,
        LAMBDA x, prices :
            _upsert_prices(x, prices, backfill_related_entities, None, api))

sync_plans(c, backfill_related_entities, api) ==
    _fetch_and_upsert(
        c, "plans", "all", api,
        LAMBDA x, plans :
            _upsert_plans(x, plans, backfill_related_entities, None, api))

sync_customers(c, api) ==
    _fetch_and_upsert(
        c, "customers", "all", api,
        LAMBDA x, items : _upsert_customers(x, items, None))

sync_subscriptions(c, backfill_related_entities, api) ==
    _fetch_and_upsert(
        c, "subscriptions", "all", api,
        LAMBDA x, items :
            _upsert_subscriptions(x, items, backfill_related_entities, None, api))

sync_subscription_schedules(c, backfill_related_entities, api) ==
    _fetch_and_upsert(
        c, "subscription_schedules", "all", api,
        LAMBDA x, items :
            _upsert_subscription_schedules(
                x, items, backfill_related_entities, None, api))

sync_invoices(c, backfill_related_entities, api) ==
    _fetch_and_upsert(
        c, "invoices", "all", api,
        LAMBDA x, items :
            _upsert_invoices(x, items, backfill_related_entities, None, api))

sync_charges(c, backfill_related_entities, api) ==
    _fetch_and_upsert(
        c, "charges", "all", api,
        LAMBDA x, items :
            _upsert_charges(x, items, backfill_related_entities, None, api))

sync_setup_intents(c, backfill_related_entities, api) ==
    _fetch_and_upsert(
        c, "setup_intents", "all", api,
        LAMBDA x, items :
            _upsert_setup_intents(x, items, backfill_related_entities, None, api))

sync_payment_intents(c, backfill_related_entities, api) ==
    _fetch_and_upsert(
        c, "payment_intents", "all", api,
        LAMBDA x, items :
            _upsert_payment_intents(
                x, items, backfill_related_entities, None, api))

sync_tax_ids(c, backfill_related_entities, api) ==
    _fetch_and_upsert(
        c, "tax_ids", "all", api,
        LAMBDA x, items :
            _upsert_tax_ids(x, items, backfill_related_entities, None, api))

\* for customer_id_chunk in chunk_array(customer_ids, 10)
customers_per_chunk == 10

\* synced += result['synced']
Summed(synced, c) ==
    [ctx |-> c,
     synced |-> IF Ok(c) THEN synced + c.returned.synced ELSE synced]

\* return {'synced': synced}
Counted(acc) == Return(acc.ctx, [synced |-> acc.synced])

\* array[i:i + chunk_size] for i in range(0, len(array), chunk_size)
RECURSIVE chunk_array(_, _)
chunk_array(array, size) ==
    IF array = <<>> THEN <<>>
    ELSE IF Len(array) <= size THEN <<array>>
    ELSE <<SubSeq(array, 1, size)>>
             \o chunk_array(SubSeq(array, size + 1, Len(array)), size)

\* A faulty variant: the customers are read whatever their deleted flag.
StoredCustomersAll(c) ==
    SetToSeq({i \in IdsOf("customers") : c.store["customers"][i].exists})

\* SELECT id FROM customers WHERE deleted <> true, in some order.
StoredCustomers(c) ==
    SetToSeq({i \in IdsOf("customers") :
                 /\ c.store["customers"][i].exists
                 /\ c.store["customers"][i].cols["deleted"] # "true"})

\* The payment methods of the customers of one chunk, one customer after
\* the other; acc is the context with the count so far.
RECURSIVE SyncChunkOfCustomers(_, _, _, _, _)
SyncChunkOfCustomers(acc, customer_id_chunk, k, backfill_related_entities, api) ==
    IF k > Len(customer_id_chunk) \/ ~Ok(acc.ctx) THEN acc
    ELSE SyncChunkOfCustomers(
             Summed(acc.synced,
                    _fetch_and_upsert(
                        acc.ctx, "payment_methods", customer_id_chunk[k], api,
                        LAMBDA x, items :
                            _upsert_payment_methods(
                                x, items, backfill_related_entities, None,
                                api))),
             customer_id_chunk, k + 1, backfill_related_entities, api)

RECURSIVE SyncChunksOfCustomers(_, _, _, _, _)
SyncChunksOfCustomers(acc, chunks, j, backfill_related_entities, api) ==
    IF j > Len(chunks) \/ ~Ok(acc.ctx) THEN acc
    ELSE SyncChunksOfCustomers(
             SyncChunkOfCustomers(
                 acc, chunks[j], 1, backfill_related_entities, api),
             chunks, j + 1, backfill_related_entities, api)

sync_payment_methods(c, backfill_related_entities, api) ==
    Counted(SyncChunksOfCustomers(
                [ctx |-> c, synced |-> 0],
                chunk_array(StoredCustomers(c), customers_per_chunk), 1,
                backfill_related_entities, api))

sync_disputes(c, backfill_related_entities, api) ==
    _fetch_and_upsert(
        c, "disputes", "all", api,
        LAMBDA x, items :
            _upsert_disputes(x, items, backfill_related_entities, None, api))

sync_early_fraud_warnings(c, backfill_related_entities, api) ==
    _fetch_and_upsert(
        c, "early_fraud_warnings", "all", api,
        LAMBDA x, items :
            _upsert_early_fraud_warning(
                x, items, backfill_related_entities, None, api))

sync_refunds(c, backfill_related_entities, api) ==
    _fetch_and_upsert(
        c, "refunds", "all", api,
        LAMBDA x, items :
            _upsert_refunds(x, items, backfill_related_entities, None, api))

sync_credit_notes(c, api) ==
    _fetch_and_upsert(
        c, "credit_notes", "all", api,
        LAMBDA x, credit_notes :
            _upsert_credit_notes(x, credit_notes, "None", None, api))

sync_features(c, api) ==
    _fetch_and_upsert(
        c, "features", "all", api,
        LAMBDA x, features : _upsert_features(x, features, None))

sync_entitlements(c, customer_id, api) ==
    _fetch_and_upsert(
        c, "active_entitlements", customer_id, api,
        LAMBDA x, entitlements :
            _upsert_active_entitlements(
                x, customer_id, entitlements, "None", None, api))

sync_checkout_sessions(c, backfill_related_entities, api) ==
    _fetch_and_upsert(
        c, "checkout_sessions", "all", api,
        LAMBDA x, items :
            _upsert_checkout_sessions(
                x, items, backfill_related_entities, None, api))

\* The keys of the map sync_backfill returns.
SyncBackfillKeys ==
    {"products", "prices", "customers", "checkout_sessions", "subscriptions",
     "subscription_schedules", "invoices", "setup_intents", "payment_methods",
     "disputes", "charges", "payment_intents", "plans", "tax_ids",
     "credit_notes", "early_fraud_warnings", "refunds"}

\* self.sync_<key>(params)
SyncOf(key, c, params, api) ==
    CASE key = "products" -> sync_products(c, api)
      [] key = "prices" ->
            sync_prices(c, params.backfill_related_entities, api)
      [] key = "plans" -> sync_plans(c, params.backfill_related_entities, api)
      [] key = "customers" -> sync_customers(c, api)
      [] key = "subscriptions" ->
            sync_subscriptions(c, params.backfill_related_entities, api)
      [] key = "subscription_schedules" ->
            sync_subscription_schedules(
                c, params.backfill_related_entities, api)
      [] key = "invoices" ->
            sync_invoices(c, params.backfill_related_entities, api)
      [] key = "charges" ->
            sync_charges(c, params.backfill_related_entities, api)
      [] key = "setup_intents" ->
            sync_setup_intents(c, params.backfill_related_entities, api)
      [] key = "payment_methods" ->
            sync_payment_methods(c, params.backfill_related_entities, api)
      [] key = "payment_intents" ->
            sync_payment_intents(c, params.backfill_related_entities, api)
      [] key = "tax_ids" ->
            sync_tax_ids(c, params.backfill_related_entities, api)
      [] key = "credit_notes" -> sync_credit_notes(c, api)
      [] key = "disputes" ->
            sync_disputes(c, params.backfill_related_entities, api)
      [] key = "early_fraud_warnings" ->
            sync_early_fraud_warnings(
                c, params.backfill_related_entities, api)
      [] key = "refunds" ->
            sync_refunds(c, params.backfill_related_entities, api)
      [] key = "checkout_sessions" ->
            sync_checkout_sessions(c, params.backfill_related_entities, api)

\* A faulty variant: customers are synchronised after what references them.
AllOrderCustomersLate ==
    <<"products", "prices", "plans", "subscriptions",
      "subscription_schedules", "invoices", "charges", "setup_intents",
      "payment_methods", "customers", "payment_intents", "tax_ids",
      "credit_notes", "disputes", "early_fraud_warnings", "refunds",
      "checkout_sessions">>

\* if obj == 'all': the syncs in the order of the statements.
AllOrder ==
    <<"products", "prices", "plans", "customers", "subscriptions",
      "subscription_schedules", "invoices", "charges", "setup_intents",
      "payment_methods", "payment_intents", "tax_ids", "credit_notes",
      "disputes", "early_fraud_warnings", "refunds", "checkout_sessions">>

\* elif obj == '<object>': the entry of the map the branch assigns, if the
\* object has a branch.
SelectedKey(obj) ==
    CASE obj = "customer" -> "customers"
      [] obj = "invoice" -> "invoices"
      [] obj = "price" -> "prices"
      [] obj = "product" -> "products"
      [] obj = "subscription" -> "subscriptions"
      [] obj = "subscription_schedules" -> "subscription_schedules"
      [] obj = "setup_intent" -> "setup_intents"
      [] obj = "payment_method" -> "payment_methods"
      [] obj = "dispute" -> "disputes"
      [] obj = "charge" -> "charges"
      [] obj = "payment_intent" -> "payment_intents"
      [] obj = "plan" -> "plans"
      [] obj = "tax_id" -> "tax_ids"
      [] obj = "credit_note" -> "credit_notes"
      [] obj = "early_fraud_warning" -> "early_fraud_warnings"
      [] obj = "refund" -> "refunds"
      [] obj = "checkout_sessions" -> "checkout_sessions"
      [] OTHER -> Null

\* <key> = self.sync_<key>(params) : the sync that was entered is on
\* record; its count is assigned unless it raised.  (An entry of the map
\* is None, or <<count>> once assigned.)
Assigned(b, key, c) ==
    [ctx |-> c, ran |-> Append(b.ran, key),
     result |-> IF Ok(c) THEN [b.result EXCEPT ![key] = <<c.returned>>]
                ELSE b.result]

RunSync(b, key, params, api) ==
    Assigned(b, key, SyncOf(key, b.ctx, params, api))

RECURSIVE RunInOrder(_, _, _, _, _)
RunInOrder(b, order, k, params, api) ==
    IF k > Len(order) \/ ~Ok(b.ctx) THEN b
    ELSE RunInOrder(RunSync(b, order[k], params, api), order, k + 1,
                    params, api)

sync_backfill(c, params, api) ==
    LET b == [ctx |-> c, ran |-> <<>>,
              result |-> [key \in SyncBackfillKeys |-> None]]
    IN  IF params.object = "all" THEN RunInOrder(b, AllOrder, 1, params, api)
        ELSE IF SelectedKey(params.object) # Null
        THEN RunSync(b, SelectedKey(params.object), params, api)
        ELSE b

----------------------------------------------------------------------------
(* The environment: the objects and events of the source platform          *)

\* The object kinds whose events the router specification delivers.
RoutedKinds ==
    {"charge", "customer", "subscription", "invoice", "product", "price",
     "plan", "setup_intent", "subscription_schedule", "dispute",
     "payment_intent", "credit_note", "refund"}

TableOf(kind) ==
    CASE kind = "charge" -> "charges"
      [] kind = "customer" -> "customers"
      [] kind = "subscription" -> "subscriptions"
      [] kind = "invoice" -> "invoices"
      [] kind = "product" -> "products"
      [] kind = "price" -> "prices"
      [] kind = "plan" -> "plans"
      [] kind = "setup_intent" -> "setup_intents"
      [] kind = "subscription_schedule" -> "subscription_schedules"
      [] kind = "dispute" -> "disputes"
      [] kind = "payment_intent" -> "payment_intents"
      [] kind = "credit_note" -> "credit_notes"
      [] kind = "refund" -> "refunds"
      [] kind = "checkout.session" -> "checkout_sessions"
      [] kind = "tax_id" -> "tax_ids"
      [] kind = "payment_method" -> "payment_methods"
      [] kind = "radar.early_fraud_warning" -> "early_fraud_warnings"
      [] kind = "review" -> "reviews"
      [] kind = "invoice_payment" -> "invoice_payments"
      [] kind = "subscription_item" -> "subscription_items"
      [] kind = "item" -> "checkout_session_line_items"
      [] kind = "entitlements.active_entitlement" -> "active_entitlements"
      [] kind = "entitlements.feature" -> "features"

\* The event types delivered for a kind: two of each of its handlers.
SentTypes(kind) ==
    CASE kind = "charge" -> {"charge.succeeded", "charge.updated"}
      [] kind = "customer" ->
            {"customer.created", "customer.updated", "customer.deleted"}
      [] kind = "subscription" ->
            {"customer.subscription.updated", "customer.subscription.deleted"}
      [] kind = "invoice" -> {"invoice.updated", "invoice.voided"}
      [] kind = "product" ->
            {"product.created", "product.updated", "product.deleted"}
      [] kind = "price" -> {"price.created", "price.updated", "price.deleted"}
      [] kind = "plan" -> {"plan.created", "plan.updated", "plan.deleted"}
      [] kind = "setup_intent" ->
            {"setup_intent.created", "setup_intent.succeeded"}
      [] kind = "subscription_schedule" ->
            {"subscription_schedule.updated", "subscription_schedule.canceled"}
      [] kind = "dispute" ->
            {"charge.dispute.updated", "charge.dispute.closed"}
      [] kind = "payment_intent" ->
            {"payment_intent.processing", "payment_intent.succeeded"}
      [] kind = "credit_note" -> {"credit_note.updated", "credit_note.voided"}
      [] kind = "refund" -> {"refund.updated", "charge.refund.updated"}
      [] kind = "checkout.session" -> {"checkout.session.completed"}

\* The status values an object of a kind takes: its terminal ones and one
\* that is not terminal.
StatusesOf(kind) ==
    CASE kind = "charge" -> {"pending", "failed", "succeeded"}
      [] kind = "subscription" -> {"active", "canceled", "incomplete_expired"}
      [] kind = "invoice" -> {"open", "void"}
      [] kind = "setup_intent" -> {"requires_action", "canceled", "succeeded"}
      [] kind = "subscription_schedule" -> {"active", "canceled", "completed"}
      [] kind = "dispute" -> {"needs_response", "won", "lost"}
      [] kind = "payment_intent" -> {"processing", "canceled", "succeeded"}
      [] kind = "credit_note" -> {"issued", "void"}
      [] kind = "refund" -> {"pending", "succeeded"}
      [] OTHER -> {Null}

\* The one id of a table the router specification uses.
FirstId(table) ==
    IF table = "customers" THEN "cus_1" ELSE CHOOSE i \in IdsOf(table) : TRUE

\* The foreign ids an object of a kind carries.
WithReferences(e) ==
    [e EXCEPT
        !.customer =
            IF e.object \in {"charge", "subscription", "invoice",
                             "setup_intent", "subscription_schedule",
                             "payment_intent", "credit_note", "tax_id",
                             "payment_method", "checkout.session"}
            THEN "cus_1" ELSE Null,
        !.product = IF e.object \in {"price", "plan"} THEN "prod_1" ELSE Null,
        !.charge = IF e.object \in {"dispute", "refund"} THEN "ch_1" ELSE Null]

\* The objects of a kind with the given id, as the source platform sends
\* them: every business content and status; a customer may be deleted.
ObjectsOf(kind, id) ==
    {WithReferences([Blank(kind, id) EXCEPT !.data = d, !.status = s]) :
        d \in DataVals, s \in StatusesOf(kind)}
    \cup (IF kind = "customer"
          THEN {[Blank(kind, id) EXCEPT !.deleted = "true"]}
          ELSE {})

\* An answer of the source API's retrieve.
Found(entity) == [ok |-> TRUE, entity |-> entity]

Failed(code) == [ok |-> FALSE, code |-> code, entity |-> Blank(Null, Null),
                 data |-> <<>>]

Listed(data) == [ok |-> TRUE, data |-> data]

\* What the source API's list calls are keyed by: the parent's id, or "all"
\* for the listing of a whole kind.
Listings ==
    Tables \cup {"invoice_line_items", "credit_note_line_items"}

ListKeys == UNION {IdsOf(t) : t \in Tables} \cup {"all"}

\* The source API failing every call.
NoApi ==
    [retrieve |-> [t \in Tables |-> [i \in IdsOf(t) |-> Failed("api_error")]],
     list |-> [l \in Listings |-> [k \in ListKeys |-> Failed("api_error")]]]

\* The source API with every listing empty.
EmptyApi ==
    [NoApi EXCEPT !.list = [l \in Listings |-> [k \in ListKeys |->
                                                   Listed(<<>>)]]]

\* The answers retrieve may give for one id of one kind: the object as the
\* source holds it now (in any status, deleted or not, with content other
\* than "v1"), or a failure.
RetrieveAnswers(kind, id) ==
    {Found(e) : e \in {o \in ObjectsOf(kind, id) : o.data # "v1"}}
    \cup {Failed("resource_missing"), Failed("api_error")}

----------------------------------------------------------------------------
(* Actions                                                                 *)

\* The observation of a finished call: what started it, the API calls it
\* made, the records it handed to the store (with whether the guard turned
\* the record away), the rows it deleted and how it ended.
Observe(op, event, res) ==
    [op |-> op, type |-> event.type, object |-> event.object,
     created |-> event.created, at |-> now, err |-> res.ctx.err,
     calls |-> res.ctx.calls,
     handed |-> {[table |-> h.table, id |-> h.id, ts |-> h.ts,
                  schema |-> h.schema, data |-> h.entity.data,
                  status |-> h.entity.status, deleted |-> h.entity.deleted,
                  rejected |-> h.rejected] : h \in res.ctx.handed},
     deleted |-> res.ctx.deleted, refetched |-> res.refetched]

NoEvent == [type |-> Null, created |-> 0, object |-> Blank(Null, Null)]

\* One webhook delivery: process_event runs to its end; the statements it
\* executed before an error stay committed.
Commit(event, res) ==
    /\ store' = res.ctx.store
    /\ last' = Observe("process_event", event, res)

Deliver(event, api) ==
    /\ Commit(event, process_event(NewCtx, event, api))
    /\ UNCHANGED <<now, tz, config, focus, replica, run, user_subscriptions, handlers, invitations, service>>

\* The source API as one webhook delivery may find it.  A handler that makes
\* no call against an API failing every call makes none against any other
\* (it runs the same statements up to its first call), so for such a handler
\* one API stands for all.
ApisFor(event, apis) ==
    IF process_event(NewCtx, event, NoApi).ctx.calls = <<>> THEN {NoApi}
    ELSE apis

\* A delivery for the kind in focus.  Events are delivered at least once and
\* in any order: the origination time is any time up to now.
ProcessEvent ==
    \E type \in SentTypes(focus), created \in 0..now :
      \E obj \in ObjectsOf(focus, FirstId(TableOf(focus))) :
        LET event == [type |-> type, created |-> created, object |-> obj]
        IN  \E api \in ApisFor(event,
                    {[NoApi EXCEPT !.retrieve[TableOf(focus)][obj.id] = answer] :
                        answer \in RetrieveAnswers(focus, obj.id)}) :
              Deliver(event, api)

Tick ==
    /\ now < MaxTime
    /\ now' = now + 1
    /\ UNCHANGED <<store, tz, config, focus, last, replica, run, user_subscriptions, handlers, invitations, service>>

EmptyStore == [t \in Tables |-> [i \in IdsOf(t) |-> NoRow]]

\* No backfill in progress: nothing listed, buffered, handed over or stored.
NoRun ==
    [phase |-> "idle", chunk |-> <<>>, synced |-> 0, upserts |-> <<>>,
     stored |-> {}, err |-> "none", listed_at |-> 0]

\* StripeService before the application is connected: no engine instance
\* (0), none constructed, no settings saved.
NoService ==
    [instance |-> 0, engines |-> 0, stripe_connected |-> Null,
     stripe_secret_key |-> Null, stripe_webhooks |-> Null,
     stripe_enabled |-> Null, disconnected |-> FALSE]

\* No second deployment.
NoReplica == [store |-> EmptyStore, events |-> {}, seen |-> <<{}, {}>>]

Configs(policy, backfill) ==
    [revalidate_objects_via_stripe_api : policy,
     backfill_related_entities : backfill,
     auto_expand_lists : {FALSE}]

\* The engine after construction, for each kind in focus, with the kind
\* listed in the revalidation policy or not.
Init ==
    /\ store = EmptyStore
    /\ now = 0
    /\ tz \in TzOffsets
    /\ focus \in RoutedKinds
    /\ config \in Configs({{}, {focus}}, {TRUE})
    /\ last = Observe("init", NoEvent, [ctx |-> NewCtx, refetched |-> FALSE])
    /\ replica = NoReplica
    /\ run = NoRun
    /\ user_subscriptions = <<>>
    /\ handlers = <<>>
    /\ invitations = <<>>
    /\ service = NoService

Next == ProcessEvent \/ Tick

Spec == Init /\ [][Next]_vars

----------------------------------------------------------------------------
(* Subscriptions with their items: webhook deliveries and backfill         *)

Item(i, subscription_id, d) ==
    [Blank("subscription_item", i) EXCEPT
        !.subscription = subscription_id, !.data = d]

\* A subscription as the source sends it: its items are the whole list L.
SubscriptionWith(id, L, d) ==
    [Blank("subscription", id) EXCEPT
        !.data = d, !.status = "active", !.customer = "cus_1",
        !.items = [present |-> TRUE,
                   data |-> [k \in 1..Len(SetToSeq(L)) |->
                                Item(SetToSeq(L)[k], id, d)],
                   has_more |-> FALSE]]

Subscriptions ==
    {SubscriptionWith(id, L, d) :
        id \in IdsOf("subscriptions"),
        L \in SUBSET IdsOf("subscription_items"), d \in DataVals}

\* The end of a call that no webhook event started.
Finish(op, object, c) ==
    /\ store' = c.store
    /\ last' = Observe(op, [NoEvent EXCEPT !.object = object],
                       [ctx |-> c, refetched |-> FALSE])
    /\ UNCHANGED <<now, tz, config, focus, replica, run, user_subscriptions, handlers, invitations, service>>

SubscriptionEvent ==
    \E type \in SentTypes("subscription"), created \in 0..now :
      \E sub \in Subscriptions :
        Deliver([type |-> type, created |-> created, object |-> sub], NoApi)

SyncSingleSubscription ==
    \E sub \in Subscriptions :
      Finish("sync_single_entity", sub,
             sync_single_entity(
                 NewCtx, sub.id,
                 [NoApi EXCEPT !.retrieve["subscriptions"][sub.id] = Found(sub)]))

SyncSubscriptions ==
    \E sub \in Subscriptions :
      Finish("sync_subscriptions", sub,
             sync_subscriptions(
                 NewCtx, "None",
                 [NoApi EXCEPT !.list["subscriptions"]["all"] = Listed(<<sub>>)]))

InitSub ==
    /\ store = EmptyStore
    /\ now = 0
    /\ tz = 0
    /\ focus = "subscription"
    /\ config \in Configs({{}}, {FALSE})
    /\ last = Observe("init", NoEvent, [ctx |-> NewCtx, refetched |-> FALSE])
    /\ replica = NoReplica
    /\ run = NoRun
    /\ user_subscriptions = <<>>
    /\ handlers = <<>>
    /\ invitations = <<>>
    /\ service = NoService

NextSub ==
    SubscriptionEvent \/ SyncSingleSubscription \/ SyncSubscriptions \/ Tick

SpecSub == InitSub /\ [][NextSub]_vars

----------------------------------------------------------------------------
(* Two deployments fed the same events in their own orders                 *)

\* The events about the one id of a kind.
EventsAbout(kind) ==
    [type : SentTypes(kind), created : 0..MaxTime,
     object : ObjectsOf(kind, FirstId(TableOf(kind)))]

\* The first deployment is delivered one of the events.
DeliverFirst ==
    \E event \in replica.events :
        /\ Commit(event, process_event(NewCtx, event, NoApi))
        /\ replica' = [replica EXCEPT !.seen[1] = @ \cup {event}]
        /\ UNCHANGED <<now, tz, config, focus, run, user_subscriptions, handlers, invitations, service>>

\* The second deployment is delivered one of the events.
DeliverSecond ==
    \E event \in replica.events :
        LET res == process_event(CtxOf(replica.store), event, NoApi)
        IN  /\ replica' = [replica EXCEPT !.store = res.ctx.store,
                                          !.seen[2] = @ \cup {event}]
            /\ UNCHANGED <<store, now, tz, config, focus, last, run, user_subscriptions, handlers, invitations, service>>

\* Two deployments with no refetch configured and a set of one or two
\* events about the same id, all originated already.
InitConv ==
    /\ store = EmptyStore
    /\ now = MaxTime
    /\ tz = 0
    /\ focus = "product"
    /\ config \in Configs({{}}, {FALSE})
    /\ last = Observe("init", NoEvent, [ctx |-> NewCtx, refetched |-> FALSE])
    /\ \E e1 \in EventsAbout(focus), e2 \in EventsAbout(focus) :
          replica = [NoReplica EXCEPT !.events = {e1, e2}]
    /\ run = NoRun
    /\ user_subscriptions = <<>>
    /\ handlers = <<>>
    /\ invitations = <<>>
    /\ service = NoService

NextConv == DeliverFirst \/ DeliverSecond

SpecConv == InitConv /\ [][NextConv]_vars

----------------------------------------------------------------------------
(* Entitlement summaries                                                   *)

\* The entitlement ids of a customer: an entitlement belongs to one customer.
EntitlementsOf(customer_id) ==
    IF customer_id = "cus_1" THEN {"ent_X", "ent_Y"} ELSE {"ent_Z"}

\* The list of the entitlements with the given ids, as the source sends it.
EntitlementList(ids) ==
    [k \in 1..Len(SetToSeq(ids)) |->
        [Blank("entitlements.active_entitlement", SetToSeq(ids)[k]) EXCEPT
            !.feature = "feat_1"]]

\* A summary of a customer's active entitlements: the whole list.
Summary(z, L) ==
    [Blank("entitlements.active_entitlement_summary", Null) EXCEPT
        !.customer = z,
        !.items = [present |-> TRUE, data |-> EntitlementList(L),
                   has_more |-> FALSE]]

Summaries ==
    UNION {{Summary(z, L) : L \in SUBSET EntitlementsOf(z)} :
              z \in {"cus_1", "cus_2"}}

\* A summary event is delivered; the source API, asked for the customer's
\* entitlements, lists what the customer holds by then or fails.
EntitlementEvent ==
    \E created \in 0..now, summary \in Summaries :
      \E listed \in SUBSET EntitlementsOf(summary.customer), ok \in BOOLEAN :
        LET event == [type |-> "entitlements.active_entitlement_summary.updated",
                      created |-> created, object |-> summary,
                      summary |-> [customer |-> summary.customer,
                                   entitlements |-> summary.items]]
        IN  \E api \in ApisFor(event,
                   {[NoApi EXCEPT
                        !.list["active_entitlements"][summary.customer] =
                            IF ok THEN Listed(EntitlementList(listed))
                            ELSE Failed("api_error")]}) :
              Deliver(event, api)

\* The entitlements of a customer are backfilled: the source lists what the
\* customer holds, or fails.
SyncEntitlements ==
    \E z \in {"cus_1", "cus_2"} :
      \E listed \in SUBSET EntitlementsOf(z), ok \in BOOLEAN :
        Finish("sync_entitlements", Summary(z, listed),
               sync_entitlements(
                   NewCtx, z,
                   [EmptyApi EXCEPT
                       !.list["active_entitlements"][z] =
                           IF ok THEN Listed(EntitlementList(listed))
                           ELSE Failed("api_error")]))

InitEnt ==
    /\ store = EmptyStore
    /\ now = 0
    /\ tz = 0
    /\ focus = "entitlements"
    /\ config \in Configs({{}, {"entitlements"}}, BOOLEAN)
    /\ last = Observe("init", NoEvent, [ctx |-> NewCtx, refetched |-> FALSE])
    /\ replica = NoReplica
    /\ run = NoRun
    /\ user_subscriptions = <<>>
    /\ handlers = <<>>
    /\ invitations = <<>>
    /\ service = NoService

NextEnt == EntitlementEvent \/ Tick

SpecEnt == InitEnt /\ [][NextEnt]_vars

\* Summary events and entitlement backfills on one store, the clock at rest.
NextEntSync == EntitlementEvent \/ SyncEntitlements

SpecEntSync == InitEnt /\ [][NextEntSync]_vars

----------------------------------------------------------------------------
(* Referencing entities: invoices and checkout sessions, by webhook,       *)
(* single-entity sync and backfill                                         *)

\* An invoice as the source sends it, referencing a customer and a
\* subscription or neither.
Invoices ==
    {[Blank("invoice", "in_1") EXCEPT
         !.data = "v1", !.status = "open", !.customer = z, !.subscription = p] :
        z \in {Null, "cus_1"}, p \in {Null, "sub_1"}}

\* A checkout session referencing a customer or none.
CheckoutSessions ==
    {[Blank("checkout.session", "cs_1") EXCEPT !.data = "v1", !.customer = z] :
        z \in {Null, "cus_1"}}

LineItem ==
    [Blank("item", "li_1") EXCEPT !.data = "v1", !.price = "price_1"]

\* The source API as a sync of an invoice may find it: the customer and the
\* subscription are each found, or the retrieve fails.
InvoiceApis ==
    {[NoApi EXCEPT
         !.retrieve["customers"]["cus_1"] = zr,
         !.retrieve["subscriptions"]["sub_1"] = pr] :
        zr \in {Found([Blank("customer", "cus_1") EXCEPT !.data = "v1"]),
                Failed("api_error")},
        pr \in {Found(SubscriptionWith("sub_1", {}, "v1")),
                Failed("api_error")}}

\* The source API as a checkout session event may find it: the line items
\* of the session are listed or not; their price and its product are each
\* found, or the retrieve fails.
SessionApis ==
    {[NoApi EXCEPT
         !.retrieve["prices"]["price_1"] = rr,
         !.retrieve["products"]["prod_1"] = dr,
         !.list["checkout_session_line_items"]["cs_1"] = lr] :
        rr \in {Found([Blank("price", "price_1") EXCEPT
                          !.data = "v1", !.product = "prod_1"]),
                Failed("api_error")},
        dr \in {Found([Blank("product", "prod_1") EXCEPT !.data = "v1"]),
                Failed("api_error")},
        lr \in {Listed(<<LineItem>>), Failed("api_error")}}

InvoiceEvent ==
    \E type \in SentTypes("invoice"), created \in 0..now, inv \in Invoices :
        Deliver([type |-> type, created |-> created, object |-> inv], NoApi)

SyncSingleInvoice ==
    \E inv \in Invoices, api \in InvoiceApis :
        Finish("sync_single_entity", inv,
               sync_single_entity(
                   NewCtx, inv.id,
                   [api EXCEPT !.retrieve["invoices"][inv.id] = Found(inv)]))

SyncInvoices ==
    \E inv \in Invoices, api \in InvoiceApis :
      \E backfill_related_entities \in {"None", "True", "False"} :
        Finish("sync_invoices", inv,
               sync_invoices(
                   NewCtx, backfill_related_entities,
                   [api EXCEPT !.list["invoices"]["all"] = Listed(<<inv>>)]))

CheckoutSessionEvent ==
    \E created \in 0..now, session \in CheckoutSessions :
      \E api \in SessionApis :
        Deliver([type |-> "checkout.session.completed", created |-> created,
                 object |-> session], api)

\* The engine after construction, with related-entity backfill configured
\* or not and no kind listed for revalidation.
InitRef ==
    /\ store = EmptyStore
    /\ now = 0
    /\ tz = 0
    /\ focus = "invoice"
    /\ config \in Configs({{}}, BOOLEAN)
    /\ last = Observe("init", NoEvent, [ctx |-> NewCtx, refetched |-> FALSE])
    /\ replica = NoReplica
    /\ run = NoRun
    /\ user_subscriptions = <<>>
    /\ handlers = <<>>
    /\ invitations = <<>>
    /\ service = NoService

NextRef ==
    \/ InvoiceEvent
    \/ SyncSingleInvoice
    \/ SyncInvoices
    \/ CheckoutSessionEvent

SpecRef == InitRef /\ [][NextRef]_vars

----------------------------------------------------------------------------
(* Every event type: each handler of process_event, and types it has none  *)
(* for                                                                     *)

\* The object kinds process_event has handlers for.
HandledKinds ==
    RoutedKinds \cup {"checkout.session", "tax_id", "payment_method",
                      "radar.early_fraud_warning", "review", "invoice_payment"}

\* Every event type the router handles for a kind.
TypesOf(kind) ==
    CASE kind = "charge" -> ChargeEvents
      [] kind = "customer" -> CustomerEvents \cup {"customer.deleted"}
      [] kind = "subscription" -> SubscriptionEvents
      [] kind = "invoice" -> InvoiceEvents
      [] kind = "product" -> ProductEvents \cup {"product.deleted"}
      [] kind = "price" -> PriceEvents \cup {"price.deleted"}
      [] kind = "plan" -> PlanEvents \cup {"plan.deleted"}
      [] kind = "setup_intent" -> SetupIntentEvents
      [] kind = "subscription_schedule" -> SubscriptionScheduleEvents
      [] kind = "dispute" -> DisputeEvents
      [] kind = "payment_intent" -> PaymentIntentEvents
      [] kind = "credit_note" -> CreditNoteEvents
      [] kind = "refund" -> RefundEvents
      [] kind = "checkout.session" -> CheckoutSessionEvents
      [] kind = "tax_id" -> TaxIdEvents \cup {"customer.tax_id.deleted"}
      [] kind = "payment_method" -> PaymentMethodEvents
      [] kind = "radar.early_fraud_warning" -> EarlyFraudWarningEvents
      [] kind = "review" -> ReviewEvents
      [] kind = "invoice_payment" -> {"invoice_payment.paid"}

HandledTypes ==
    UNION {TypesOf(kind) : kind \in HandledKinds}
    \cup {"entitlements.active_entitlement_summary.updated"}

\* Event types of the source platform the router has no branch for.
UnhandledTypes == {"payout.paid", "customer.source.created"}

\* The objects of the kind in focus as an event embeds them.
EventObjects ==
    {o \in ObjectsOf(focus, FirstId(TableOf(focus))) : o.data = "v1"}

\* The source API answering a retrieve of the event's object: with the
\* object as the source holds it by then, or with a failure.
RetrieveApis(obj) ==
    {[NoApi EXCEPT !.retrieve[TableOf(focus)][obj.id] = answer] :
        answer \in {Found([obj EXCEPT !.data = "v2"]),
                    Failed("resource_missing"), Failed("api_error")}}

\* An event of any type the router handles for the kind in focus, with the
\* source API answering or failing.
HandledEvent ==
    /\ focus \in HandledKinds
    /\ \E type \in TypesOf(focus), obj \in EventObjects :
         LET event == [type |-> type, created |-> now, object |-> obj]
         IN  \E api \in RetrieveApis(obj) :
               Deliver(event, api)

\* An event of a type the router has no handler for, about an object of
\* the kind in focus, with the source API answering or failing.
UnhandledEvent ==
    /\ focus \in HandledKinds
    /\ \E type \in UnhandledTypes, obj \in EventObjects :
         \E api \in RetrieveApis(obj) :
           Deliver([type |-> type, created |-> now, object |-> obj], api)

\* An entitlement summary, when summaries are what this deployment receives.
SummaryEvent ==
    /\ focus = "entitlements"
    /\ EntitlementEvent

InitTypes ==
    /\ store = EmptyStore
    /\ now = 0
    /\ tz = 0
    /\ focus \in HandledKinds \cup {"entitlements"}
    /\ config \in Configs({{}, {focus}}, {TRUE})
    /\ last = Observe("init", NoEvent, [ctx |-> NewCtx, refetched |-> FALSE])
    /\ replica = NoReplica
    /\ run = NoRun
    /\ user_subscriptions = <<>>
    /\ handlers = <<>>
    /\ invitations = <<>>
    /\ service = NoService

NextTypes == HandledEvent \/ UnhandledEvent \/ SummaryEvent

SpecTypes == InitTypes /\ [][NextTypes]_vars

----------------------------------------------------------------------------
(* Webhook deliveries: signature verification in front of the router, in   *)
(* the engine (process_webhook) and in the route (stripe_webhook)          *)

\* The signing secrets: the one configured for the endpoint and another.
Secrets == {"whsec_1", "whsec_2"}

stripe_webhook_secret == "whsec_1"

\* stripe.Webhook.construct_event (the Stripe client library): the signature
\* header is verified against the secret, then the payload is decoded.
construct_event(payload, sig_header, secret) ==
    IF sig_header # payload.signed_with \/ payload.signed_with # secret
    THEN [ok |-> FALSE, code |-> "SignatureVerificationError",
          event |-> NoEvent]
    ELSE IF ~payload.well_formed
    THEN [ok |-> FALSE, code |-> "ValueError", event |-> NoEvent]
    ELSE [ok |-> TRUE, code |-> "none", event |-> payload.event]

\* What a delivery ends with: the call context, whether the router was
\* entered, the HTTP status answered (by the route) and how the
\* verification went.
Outcome(res, entered, status, verification) ==
    [ctx |-> res.ctx, refetched |-> res.refetched, entered |-> entered,
     status |-> status, verification |-> verification]

\* A faulty variant: the event is processed whatever the verification says.
process_webhook_unverified(c, payload, signature, api) ==
    LET v == construct_event(payload, signature, stripe_webhook_secret)
    IN  Outcome(process_event(c, payload.event, api), TRUE, Null,
                IF v.ok THEN "verified" ELSE v.code)

process_webhook(c, payload, signature, api) ==
    LET v == construct_event(payload, signature, stripe_webhook_secret)
    IN  IF ~v.ok
        THEN Outcome(Done(Raise(c, v.code), FALSE), FALSE, Null, v.code)
        ELSE Outcome(process_event(c, v.event, api), TRUE, Null, "verified")

\* The route's answer once process_event has run: 200, or 500 from the
\* handler's catch-all, which swallows the error.
Answered(res) ==
    Outcome([ctx |-> [res.ctx EXCEPT !.err = "none"],
             refetched |-> res.refetched],
            TRUE, IF Ok(res.ctx) THEN 200 ELSE 500, "verified")

\* The route's answer when it returns before reaching the engine.
Refused(c, status, verification) ==
    Outcome(Done(c, FALSE), FALSE, status, verification)

\* POST /webhooks/stripe.  (On success the route goes on to record the
\* payment against an invitation, which is no part of the synchronised
\* store.)
stripe_webhook(c, settings, payload, sig_header, api) ==
    IF settings.stripe_webhooks = Null THEN Refused(c, 503, "none")
    ELSE IF settings.stripe_webhooks = "unparsable"
    THEN Refused(c, 500, "none")
    ELSE IF settings.stripe_webhooks = "no_secret"
    THEN Refused(c, 500, "none")
    ELSE IF sig_header = Null THEN Refused(c, 400, "missing_header")
    ELSE LET v == construct_event(payload, sig_header,
                                  settings.stripe_webhooks)
         IN  IF ~v.ok THEN Refused(c, 400, v.code)
             ELSE IF settings.stripe_secret_key = Null
             THEN Refused(c, 500, "verified")
             ELSE Answered(process_event(c, v.event, api))

\* The deliveries an endpoint may receive: a customer event, signed with
\* the endpoint's secret or another, its body intact or not.
Payloads ==
    {[event |-> [type |-> type, created |-> 0, object |-> obj],
      signed_with |-> secret, well_formed |-> wf] :
        type \in SentTypes("customer"), obj \in ObjectsOf("customer", "cus_1"),
        secret \in Secrets, wf \in BOOLEAN}

\* The Stripe-Signature header: absent, or a signature made with a secret.
SignatureHeaders == Secrets \cup {Null}

\* The application's settings: the webhook configuration (absent,
\* unparsable, without a secret for the endpoint, or with one) and the
\* API key.
Settings ==
    [stripe_webhooks : {Null, "unparsable", "no_secret", stripe_webhook_secret},
     stripe_secret_key : {Null, "sk_1"}]

\* The observation of a delivery: as for a routed event, with whether the
\* router was entered, the HTTP status answered and the verification.
ObserveDelivery(op, event, res) ==
    [op |-> op, type |-> event.type, object |-> event.object,
     created |-> event.created, at |-> now, err |-> res.ctx.err,
     calls |-> res.ctx.calls, handed |-> Observe(op, event, res).handed,
     deleted |-> res.ctx.deleted, refetched |-> res.refetched,
     entered |-> res.entered, status |-> res.status,
     verification |-> res.verification]

Received(op, event, res) ==
    /\ store' = res.ctx.store
    /\ last' = ObserveDelivery(op, event, res)
    /\ UNCHANGED <<now, tz, config, focus, replica, run, user_subscriptions, handlers, invitations, service>>

\* A delivery handed to the engine's process_webhook.
ProcessWebhook ==
    \E payload \in Payloads, signature \in SignatureHeaders :
      Received("process_webhook", payload.event,
               process_webhook(NewCtx, payload, signature, NoApi))

\* A delivery posted to the route, under any settings.
StripeWebhook ==
    \E payload \in Payloads, sig_header \in SignatureHeaders,
       settings \in Settings :
      Received("stripe_webhook", payload.event,
               stripe_webhook(NewCtx, settings, payload, sig_header, NoApi))

\* An engine configured as the route configures it: no revalidation, no
\* related-entity backfill.
InitHook ==
    /\ store = EmptyStore
    /\ now = 0
    /\ tz = 0
    /\ focus = "customer"
    /\ config \in Configs({{}}, {FALSE})
    /\ last = Observe("init", NoEvent, [ctx |-> NewCtx, refetched |-> FALSE])
    /\ replica = NoReplica
    /\ run = NoRun
    /\ user_subscriptions = <<>>
    /\ handlers = <<>>
    /\ invitations = <<>>
    /\ service = NoService

NextHook == ProcessWebhook \/ StripeWebhook

SpecHook == InitHook /\ [][NextHook]_vars

----------------------------------------------------------------------------
(* _fetch_and_upsert, one step of its loop at a time.  The records of the  *)
(* listing are numbered in listing order; the upsert callback stores the   *)
(* chunk it is given in one transaction, or fails and stores none of it.   *)

\* A faulty variant: the buffer is flushed once it exceeds the chunk size.
ChunkOverfull(chunk) == Len(chunk) > chunk_size

\* if len(chunk) >= chunk_size
ChunkFull(chunk) == Len(chunk) >= chunk_size

\* A faulty variant: a failure of the upsert is swallowed and the loop
\* goes on with an empty buffer.
UpsertedOrSkipped(r, ok) ==
    [r EXCEPT !.upserts = Append(@, r.chunk),
              !.stored = IF ok
                         THEN @ \cup {r.chunk[k] : k \in 1..Len(r.chunk)}
                         ELSE @,
              !.chunk = <<>>]

\* upsert(chunk); chunk = [] : an exception of the callback leaves the
\* function at once.
Upserted(r, ok) ==
    IF ok
    THEN [r EXCEPT !.upserts = Append(@, r.chunk),
                   !.stored = @ \cup {r.chunk[k] : k \in 1..Len(r.chunk)},
                   !.chunk = <<>>]
    ELSE [r EXCEPT !.upserts = Append(@, r.chunk),
                   !.phase = "failed", !.err = "store_error"]

\* return {'synced': synced}
Returned(r) == IF r.phase = "failed" THEN r ELSE [r EXCEPT !.phase = "done"]

Stepped(r) ==
    /\ run' = r
    /\ UNCHANGED <<store, now, tz, config, focus, last, replica, user_subscriptions, handlers, invitations, service>>

\* stripe_list = fetch()
StartListing ==
    /\ run.phase = "idle"
    /\ Stepped([run EXCEPT !.phase = "listing"])

\* The iterator yields the next record: chunk.append(item); synced += 1
NextItem ==
    /\ run.phase = "listing"
    /\ ~ChunkFull(run.chunk)
    /\ run.synced < MaxListed
    /\ Stepped([run EXCEPT !.chunk = Append(@, run.synced + 1),
                           !.synced = @ + 1])

\* The buffer has reached the chunk size: it is handed to the callback.
FlushChunk ==
    /\ run.phase = "listing"
    /\ ChunkFull(run.chunk)
    /\ \E ok \in BOOLEAN : Stepped(Upserted(run, ok))

\* The iterator is exhausted: what is left in the buffer is handed to the
\* callback and the count is returned.
EndOfListing ==
    /\ run.phase = "listing"
    /\ ~ChunkFull(run.chunk)
    /\ \E ok \in BOOLEAN :
         Stepped(Returned(IF Len(run.chunk) > 0 THEN Upserted(run, ok)
                          ELSE run))

\* The source API fails while the listing is paged through.
ListingFails ==
    /\ run.phase = "listing"
    /\ ~ChunkFull(run.chunk)
    /\ Stepped([run EXCEPT !.phase = "failed", !.err = "api_error"])

InitChunk ==
    /\ store = EmptyStore
    /\ now = 0
    /\ tz = 0
    /\ focus = "customer"
    /\ config \in Configs({{}}, {FALSE})
    /\ last = Observe("init", NoEvent, [ctx |-> NewCtx, refetched |-> FALSE])
    /\ replica = NoReplica
    /\ run = NoRun
    /\ user_subscriptions = <<>>
    /\ handlers = <<>>
    /\ invitations = <<>>
    /\ service = NoService

NextChunk ==
    \/ StartListing
    \/ NextItem
    \/ FlushChunk
    \/ EndOfListing
    \/ ListingFails

SpecChunk == InitChunk /\ [][NextChunk]_vars

----------------------------------------------------------------------------
(* The composite backfill (sync_backfill) and the payment-method backfill, *)
(* over a store that holds customers from earlier synchronisation          *)

\* SyncObject (types.py): the values the object parameter admits; Null is
\* a call without parameters.
SyncObject ==
    {"all", "customer", "customer_with_entitlements", "invoice", "price",
     "product", "subscription", "subscription_schedules", "setup_intent",
     "payment_method", "dispute", "charge", "payment_intent", "plan",
     "tax_id", "credit_note", "early_fraud_warning", "refund",
     "checkout_sessions"}

\* The object kind stored in a table.
KindOf(table) == CHOOSE kind \in HandledKinds : TableOf(kind) = table

\* The one record of a kind the source lists.
ListedObject(table) ==
    WithReferences([Blank(KindOf(table), FirstId(table)) EXCEPT !.data = "v1"])

\* The payment method the source lists for a customer.
PaymentMethod(id, customer_id) ==
    [Blank("payment_method", id) EXCEPT !.data = "v1",
                                        !.customer = customer_id]

\* The source API during a backfill: the kinds in listed have one record
\* each (the payment method is held by the first customer), the listing of
\* the failing kind fails.
BackfillApi(listed, failing) ==
    [EmptyApi EXCEPT
        !.list = [l \in Listings |-> [k \in ListKeys |->
            IF l = failing /\ (k = "all" \/ l = "payment_methods")
            THEN Failed("api_error")
            ELSE IF l \in listed /\ l = "payment_methods" /\ k = "cus_1"
            THEN Listed(<<PaymentMethod("pm_1", "cus_1")>>)
            ELSE IF l \in listed /\ l # "payment_methods" /\ k = "all"
            THEN Listed(<<ListedObject(l)>>)
            ELSE Listed(<<>>)]]]

\* The source API during a payment-method backfill: the customers that
\* hold the two payment methods, and the customer whose listing fails.
PaymentMethodApi(holder1, holder2, failing) ==
    [EmptyApi EXCEPT
        !.list["payment_methods"] = [k \in ListKeys |->
            IF k = failing THEN Failed("api_error")
            ELSE Listed(
                (IF k = holder1 THEN <<PaymentMethod("pm_1", k)>> ELSE <<>>)
                \o (IF k = holder2 THEN <<PaymentMethod("pm_2", k)>>
                    ELSE <<>>))]]

\* The observation of a finished backfill call.
ObserveBackfill(op, params, b) ==
    [op |-> op, object |-> params.object, at |-> now, err |-> b.ctx.err,
     calls |-> b.ctx.calls,
     handed |-> {[table |-> h.table, id |-> h.id] : h \in b.ctx.handed},
     ran |-> b.ran, result |-> b.result, returned |-> b.ctx.returned,
     type |-> Null]

Backfilled(op, params, b) ==
    /\ store' = b.ctx.store
    /\ last' = ObserveBackfill(op, params, b)
    /\ UNCHANGED <<now, tz, config, focus, replica, run, user_subscriptions, handlers, invitations, service>>

\* One call of sync_backfill on the engine as constructed, for every value
\* of the object parameter.
SyncBackfill ==
    /\ last.op = "init"
    /\ \E object \in SyncObject \cup {Null},
          listed \in {{}, SyncBackfillKeys},
          failing \in SyncBackfillKeys \cup {Null} :
         LET params == [object |-> object,
                        backfill_related_entities |-> "None"]
         IN  Backfilled("sync_backfill", params,
                        sync_backfill(NewCtx, params,
                                      BackfillApi(listed, failing)))

\* One call of sync_payment_methods.
SyncPaymentMethods ==
    /\ last.op = "init"
    /\ \E holder1 \in {"cus_1", "cus_2", Null},
          holder2 \in {"cus_1", CustomerId(MaxCustomers), Null},
          failing \in {"cus_1", CustomerId(MaxCustomers), Null} :
         Backfilled("sync_payment_methods",
                    [object |-> "payment_method"],
                    Assigned([ctx |-> NewCtx, ran |-> <<>>,
                              result |-> [key \in SyncBackfillKeys |-> None]],
                             "payment_methods",
                             sync_payment_methods(
                                 NewCtx, "None",
                                 PaymentMethodApi(holder1, holder2, failing))))

\* A stored customer, deleted or not.
CustomerRow(is_deleted) ==
    [exists |-> TRUE,
     cols |-> [col \in Columns |->
                 IF col = "object" THEN "customer"
                 ELSE IF col = "deleted" /\ is_deleted THEN "true"
                 ELSE IF col = "data" /\ ~is_deleted THEN "v1"
                 ELSE Null],
     last_synced_at |-> <<0>>]

\* The store holding the first n customers, those in deleted as deleted.
StoreWithCustomers(n, deleted) ==
    [EmptyStore EXCEPT
        !["customers"] = [i \in IdsOf("customers") |->
            IF i \in {CustomerId(k) : k \in 1..n}
            THEN CustomerRow(i \in deleted) ELSE NoRow]]

\* The engine over a store that holds no customer, one, or more than one
\* chunk of ten, with a customer deleted or none.
InitBackfill ==
    /\ \E n \in {0, 1, MaxCustomers - 1, MaxCustomers},
          deleted \in {{}, {"cus_2"}} :
         store = StoreWithCustomers(n, deleted)
    /\ now = 0
    /\ tz = 0
    /\ focus = "customer"
    /\ config \in Configs({{}}, {FALSE})
    /\ last = Observe("init", NoEvent, [ctx |-> NewCtx, refetched |-> FALSE])
    /\ replica = NoReplica
    /\ run = NoRun
    /\ user_subscriptions = <<>>
    /\ handlers = <<>>
    /\ invitations = <<>>
    /\ service = NoService

NextBackfill == SyncBackfill \/ SyncPaymentMethods

SpecBackfill == InitBackfill /\ [][NextBackfill]_vars

----------------------------------------------------------------------------
(* A customer backfill (sync_customers) running while webhooks about the   *)
(* same customer are delivered: the listing and the upsert of what was     *)
(* listed are two steps, and deliveries may fall between them              *)

\* stripe.Customer.list: the source lists the customer as it holds it now,
\* and the record is buffered.
ListCustomers ==
    /\ run.phase = "idle"
    /\ \E customer \in {o \in ObjectsOf("customer", "cus_1") :
                            o.deleted # "true"} :
         Stepped([run EXCEPT !.phase = "listing", !.chunk = <<customer>>,
                             !.synced = 1, !.listed_at = now])

\* upsert(chunk) : lambda items: self._upsert_customers(items), and the
\* count is returned.
UpsertListedCustomers ==
    /\ run.phase = "listing"
    /\ store' = _upsert_customers(NewCtx, run.chunk, None).store
    /\ run' = Returned(Upserted(run, TRUE))
    /\ UNCHANGED <<now, tz, config, focus, last, replica, user_subscriptions, handlers, invitations, service>>

InitRace ==
    /\ store = EmptyStore
    /\ now = 0
    /\ tz = 0
    /\ focus = "customer"
    /\ config \in Configs({{}}, {FALSE})
    /\ last = Observe("init", NoEvent, [ctx |-> NewCtx, refetched |-> FALSE])
    /\ replica = NoReplica
    /\ run = NoRun
    /\ user_subscriptions = <<>>
    /\ handlers = <<>>
    /\ invitations = <<>>
    /\ service = NoService

NextRace ==
    \/ ProcessEvent
    \/ Tick
    \/ ListCustomers
    \/ UpsertListedCustomers

SpecRace == InitRace /\ [][NextRace]_vars

----------------------------------------------------------------------------
(* Customers: batches handed to _upsert_customers and customer events      *)

MaxBatch == 2

\* The customers a batch may hold: live and deleted ones of two ids.
BatchCustomers ==
    {[Blank("customer", id) EXCEPT !.data = "v1"] : id \in {"cus_1", "cus_2"}}
    \cup {[Blank("customer", id) EXCEPT !.deleted = "true"] :
             id \in {"cus_1", "cus_2"}}

Batches == UNION {[1..n -> BatchCustomers] : n \in 1..MaxBatch}

\* One call of _upsert_customers with a batch and a sync timestamp or none,
\* on the store as the events so far have left it.
UpsertCustomers ==
    \E customers \in Batches :
      \E sync_timestamp \in {None, <<0>>} :
        /\ run = NoRun
        /\ store' = _upsert_customers(NewCtx, customers, sync_timestamp).store
        /\ last' = Observe("_upsert_customers", NoEvent,
                       [ctx |-> _upsert_customers(NewCtx, customers,
                                                  sync_timestamp),
                        refetched |-> FALSE])
        /\ run' = [NoRun EXCEPT !.chunk = customers]
        /\ UNCHANGED <<now, tz, config, focus, replica, user_subscriptions, handlers, invitations, service>>

\* A customer event (created, updated or deleted) about one customer, live
\* or deleted in the event's payload, originated at any time up to now.  The
\* events come before the batch.
CustomerEvent ==
    /\ run = NoRun
    /\ \E type \in SentTypes("customer"), created \in 0..now :
      \E obj \in {o \in ObjectsOf("customer", "cus_1") : o.data # "v2"} :
        LET event == [type |-> type, created |-> created, object |-> obj]
        IN  \E api \in ApisFor(event, RetrieveApis(obj)) :
              Deliver(event, api)

InitCust ==
    /\ store = EmptyStore
    /\ now = 0
    /\ tz = 0
    /\ focus = "customer"
    /\ config \in Configs({{}, {"customer"}}, {FALSE})
    /\ last = Observe("init", NoEvent, [ctx |-> NewCtx, refetched |-> FALSE])
    /\ replica = NoReplica
    /\ run = NoRun
    /\ user_subscriptions = <<>>
    /\ handlers = <<>>
    /\ invitations = <<>>
    /\ service = NoService

NextCust ==
    \/ CustomerEvent
    \/ UpsertCustomers
    \/ Tick

SpecCust == InitCust /\ [][NextCust]_vars

----------------------------------------------------------------------------
(* Embedded lists: entities whose payload carries a paginated sub-list,    *)
(* with list expansion configured or not                                   *)

\* The kinds whose upsert expands an embedded list, and the listing of the
\* source API that drains it.
ExpandedKinds == {"subscription", "invoice", "charge", "credit_note"}

ListingOf(kind) ==
    CASE kind = "subscription" -> "subscription_items"
      [] kind = "invoice" -> "invoice_line_items"
      [] kind = "charge" -> "refunds"
      [] kind = "credit_note" -> "credit_note_line_items"

\* The k-th element of the sub-list of the entity in focus.
ListElement(kind, k) ==
    IF kind = "subscription"
    THEN Item(IF k = 1 THEN "si_A" ELSE "si_B", "sub_1", "v1")
    ELSE [Blank("list_item", IF k = 1 THEN "el_1" ELSE "el_2") EXCEPT
             !.data = "v1"]

\* The first page of the sub-list, as the payload embeds it, and the whole
\* sub-list, as the listing of the source API yields it page after page.
FirstPage(kind) == <<ListElement(kind, 1)>>

AllPages(kind) == <<ListElement(kind, 1), ListElement(kind, 2)>>

\* The embedded list of a payload: absent, truncated after the first page,
\* or complete with one or two elements.
EmbeddedLists(kind) ==
    {NoList,
     [present |-> TRUE, data |-> FirstPage(kind), has_more |-> TRUE],
     [present |-> TRUE, data |-> FirstPage(kind), has_more |-> FALSE],
     [present |-> TRUE, data |-> AllPages(kind), has_more |-> FALSE]}

\* The records handed to the store with the list each carries.
HandedLists(c) ==
    {[table |-> h.table, id |-> h.id, items |-> h.entity.items] :
        h \in c.handed}

Persisted(event, res) ==
    /\ Commit(event, res)
    /\ run' = [NoRun EXCEPT !.stored = HandedLists(res.ctx)]
    /\ UNCHANGED <<now, tz, config, focus, replica, user_subscriptions, handlers, invitations, service>>

\* An event about an entity that embeds a sub-list; the listing of the
\* source API yields the whole sub-list or fails.
EntityWithListEvent ==
    /\ focus \in ExpandedKinds
    /\ \E type \in SentTypes(focus), created \in 0..now :
        \E items \in EmbeddedLists(focus) :
         \E lr \in {Listed(AllPages(focus)), Failed("api_error")} :
          LET id == FirstId(TableOf(focus))
              obj == [WithReferences(Blank(focus, id)) EXCEPT
                         !.data = "v1", !.items = items]
              event == [type |-> type, created |-> created, object |-> obj]
          IN  Persisted(event,
                  process_event(NewCtx, event,
                      [NoApi EXCEPT !.list[ListingOf(focus)][id] = lr]))

\* A checkout session event; its line items are listed or the listing
\* fails.
SessionEvent ==
    /\ focus = "checkout.session"
    /\ \E created \in 0..now, session \in CheckoutSessions :
        \E api \in SessionApis :
          LET event == [type |-> "checkout.session.completed",
                        created |-> created, object |-> session]
          IN  Persisted(event, process_event(NewCtx, event, api))

InitExpand ==
    /\ store = EmptyStore
    /\ now = 0
    /\ tz = 0
    /\ focus \in ExpandedKinds \cup {"checkout.session"}
    /\ config \in [revalidate_objects_via_stripe_api : {{}},
                   backfill_related_entities : {FALSE},
                   auto_expand_lists : BOOLEAN]
    /\ last = Observe("init", NoEvent, [ctx |-> NewCtx, refetched |-> FALSE])
    /\ replica = NoReplica
    /\ run = NoRun
    /\ user_subscriptions = <<>>
    /\ handlers = <<>>
    /\ invitations = <<>>
    /\ service = NoService

NextExpand ==
    \/ EntityWithListEvent
    \/ SessionEvent
    \/ Tick

SpecExpand == InitExpand /\ [][NextExpand]_vars

----------------------------------------------------------------------------
(* sync_single_entity for the ids of every kind, and ids of no kind        *)

\* The kinds of the source platform's objects the engine has tables for.
StoredKinds ==
    HandledKinds \cup {"subscription_item", "item",
                       "entitlements.active_entitlement",
                       "entitlements.feature"}

StoredKindOf(table) == CHOOSE kind \in StoredKinds : TableOf(kind) = table

\* Ids the engine may be handed: the id of the kind in focus, and ids of
\* objects the engine stores nothing of (an event, a payout, a dispute with
\* the older du_ prefix).
SingleIds ==
    {FirstId(TableOf(focus)), "evt_1", "po_1", "du_1"}

\* The source API answering the retrieve of the id with an object of the
\* kind its prefix selects, or failing; the customer a charge or a
\* subscription references is found or not.
SingleApis(stripe_id) ==
    IF PrefixTable(stripe_id) = Null
          \/ stripe_id \notin IdsOf(PrefixTable(stripe_id))
    THEN {EmptyApi}
    ELSE {[EmptyApi EXCEPT
              !.retrieve[PrefixTable(stripe_id)][stripe_id] = answer,
              !.retrieve["customers"]["cus_1"] =
                  IF PrefixTable(stripe_id) = "customers" THEN answer ELSE zr] :
            answer \in {Found(o) :
                           o \in {x \in ObjectsOf(
                                      StoredKindOf(PrefixTable(stripe_id)),
                                      stripe_id) : x.data = "v1"}}
                       \cup {Failed("api_error")},
            zr \in {Found([Blank("customer", "cus_1") EXCEPT !.data = "v2"]),
                    Failed("api_error")}}

SyncSingleEntity ==
    \E stripe_id \in SingleIds :
      \E api \in SingleApis(stripe_id) :
        Finish("sync_single_entity", Blank(Null, stripe_id),
               sync_single_entity(NewCtx, stripe_id, api))

InitSingle ==
    /\ store = EmptyStore
    /\ now = 0
    /\ tz = 0
    /\ focus \in StoredKinds
    /\ config \in Configs({{}}, {FALSE})
    /\ last = Observe("init", NoEvent, [ctx |-> NewCtx, refetched |-> FALSE])
    /\ replica = NoReplica
    /\ run = NoRun
    /\ user_subscriptions = <<>>
    /\ handlers = <<>>
    /\ invitations = <<>>
    /\ service = NoService

NextSingle ==
    \/ SyncSingleEntity
    \/ Tick

SpecSingle == InitSingle /\ [][NextSingle]_vars

----------------------------------------------------------------------------
(* SubscriptionService (subscription_service.py): the subscriptions of the *)
(* product's users.  A UserSubscription row is modelled by the columns     *)
(* the service reads and writes.                                           *)

MaxSubscriptions == 3

\* The rows of User and of SubscriptionTier, and the ids a caller may pass.
Users == {1, 2}

SubscriptionTiers == {1}

UserIds == Users \cup {3}

TierIds == SubscriptionTiers \cup {2}

StripeSubscriptionIds == {"sub_1", "sub_2"}

\* The subscription statuses of the source platform.
StripeStatuses ==
    {"active", "past_due", "unpaid", "canceled", "trialing", "incomplete"}

\* The result of a service call: the table after it, the exception raised
\* if any, and the row returned (0 for None).
ServiceResult(rows, err, returned) ==
    [rows |-> rows, err |-> err, returned |-> returned]

\* A faulty variant: the user's previous subscriptions stay as they are.
create_subscription_keeping(rows, user_id, tier_id, stripe_subscription_id) ==
    IF user_id \notin Users \/ tier_id \notin SubscriptionTiers
    THEN ServiceResult(rows, "ValueError", 0)
    ELSE ServiceResult(
             Append(rows, [user_id |-> user_id, tier_id |-> tier_id,
                           stripe_subscription_id |-> stripe_subscription_id,
                           status |-> "active"]),
             "none", Len(rows) + 1)

create_subscription(rows, user_id, tier_id, stripe_subscription_id) ==
    IF user_id \notin Users THEN ServiceResult(rows, "ValueError", 0)
    ELSE IF tier_id \notin SubscriptionTiers
    THEN ServiceResult(rows, "ValueError", 0)
    ELSE LET cancelled ==
                 [k \in 1..Len(rows) |->
                     IF rows[k].user_id = user_id /\ rows[k].status = "active"
                     THEN [rows[k] EXCEPT !.status = "cancelled"]
                     ELSE rows[k]]
             subscription ==
                 [user_id |-> user_id, tier_id |-> tier_id,
                  stripe_subscription_id |-> stripe_subscription_id,
                  status |-> "active"]
         IN  ServiceResult(Append(cancelled, subscription), "none",
                           Len(rows) + 1)

\* A faulty variant: every status of the source platform other than
\* 'active' cancels the subscription.
StripeStatusMapStrict(status, current) ==
    IF status = "active" THEN "active" ELSE "cancelled"

\* The local status for a status of the source platform.
StripeStatusMap(status, current) ==
    IF status = "active" THEN "active"
    ELSE IF status \in {"past_due", "unpaid"} THEN "suspended"
    ELSE IF status = "canceled" THEN "cancelled"
    ELSE current

\* The rows filter_by(stripe_subscription_id = ...).first() may return:
\* the query has no ORDER BY, so any matching row.
FirstMatching(rows, stripe_subscription_id) ==
    {k \in 1..Len(rows) :
        rows[k].stripe_subscription_id = stripe_subscription_id}

\* update_from_stripe when first() returns row k (0: no row matches).
update_from_stripe(rows, k, status) ==
    IF k = 0 THEN ServiceResult(rows, "none", 0)
    ELSE ServiceResult(
             [rows EXCEPT ![k].status = StripeStatusMap(status, @)],
             "none", k)

\* The end of a service call.
Served(op, args, res) ==
    /\ user_subscriptions' = res.rows
    /\ last' = [op |-> op, args |-> args, err |-> res.err,
                returned |-> res.returned]
    /\ UNCHANGED <<store, now, tz, config, focus, replica, run, handlers, invitations, service>>

CreateSubscription ==
    /\ Len(user_subscriptions) < MaxSubscriptions
    /\ \E user_id \in UserIds, tier_id \in TierIds :
        \E stripe_subscription_id \in {Null, "sub_1"} :
          Served("create_subscription",
                 [user_id |-> user_id, tier_id |-> tier_id],
                 create_subscription(user_subscriptions, user_id, tier_id,
                                     stripe_subscription_id))

UpdateFromStripe ==
    \E stripe_subscription_id \in StripeSubscriptionIds :
      \E status \in StripeStatuses :
        \E k \in IF FirstMatching(user_subscriptions,
                                  stripe_subscription_id) = {}
                 THEN {0}
                 ELSE FirstMatching(user_subscriptions,
                                    stripe_subscription_id) :
          Served("update_from_stripe",
                 [stripe_subscription_id |-> stripe_subscription_id,
                  status |-> status],
                 update_from_stripe(user_subscriptions, k, status))

InitTier ==
    /\ store = EmptyStore
    /\ now = 0
    /\ tz = 0
    /\ focus = "subscription"
    /\ config \in Configs({{}}, {FALSE})
    /\ last = [op |-> "init", args |-> <<>>, err |-> "none", returned |-> 0]
    /\ replica = NoReplica
    /\ run = NoRun
    /\ user_subscriptions = <<>>
    /\ handlers = <<>>
    /\ invitations = <<>>
    /\ service = NoService

NextTier ==
    \/ CreateSubscription
    \/ UpdateFromStripe

SpecTier == InitTier /\ [][NextTier]_vars

----------------------------------------------------------------------------
(* Properties                                                              *)

\* A retrieve of the source API was made during the call.
RetrieveCalledIn(l) ==
    \E k \in 1..Len(l.calls) : l.calls[k].op = "retrieve"

\* The sync timestamp of a call: of a webhook delivery, the wall-clock time
\* when the entity was refetched, else the origination time of the event in
\* the host's local time; a backfill has none.
SyncTimestampOf(l) ==
    IF l.op # "process_event" THEN None
    ELSE IF RetrieveCalledIn(l) THEN <<l.at>>
    ELSE <<l.created + tz>>

\* A handed record is in the stored row: the row exists, carries the sync
\* timestamp (the time of the write when there is none) and the record's
\* value in every column of the schema used.
Written(h, ts, row, at) ==
    /\ row.exists
    /\ row.last_synced_at = IF ts = None THEN <<at>> ELSE ts
    /\ \A col \in h.schema \cap {"data", "status", "deleted"} :
          row.cols[col] = h[col]

\* C1 (timestamp guard, per row): in every call, each record written with
\* the call's sync timestamp T2 for an id whose stored row has a timestamp
\* T1 > T2 leaves that row exactly as it was (all columns and the stored
\* timestamp); every other record of the same batch is written.
C1_TimestampGuardPerRow ==
    [][now' = now =>
        \A h \in last'.handed :
            IF /\ store[h.table][h.id].exists
               /\ SyncTimestampOf(last') # None
               /\ store[h.table][h.id].last_synced_at[1]
                    > SyncTimestampOf(last')[1]
            THEN store'[h.table][h.id] = store[h.table][h.id]
            ELSE Written(h, SyncTimestampOf(last'), store'[h.table][h.id],
                         last'.at)]_vars

\* C1 happens: one call handed a batch of which one record was turned away
\* by a newer stored row while another record of the batch was written.
C1_Witness ==
    \E h1 \in last.handed, h2 \in last.handed :
        /\ h1.rejected
        /\ store[h1.table][h1.id].last_synced_at[1] > h1.ts[1]
        /\ ~h2.rejected
        /\ h2.ts # None
        /\ Written(h2, h2.ts, store[h2.table][h2.id], last.at)

\* The stored row already holds the record handed: the record is upserted
\* again.
SameRecord(h, row) ==
    /\ row.exists
    /\ \A col \in h.schema \cap {"data", "status", "deleted"} :
          row.cols[col] = h[col]

\* C3 (idempotence of upsert): a record upserted again with an unchanged or
\* older sync timestamp leaves the one row stored under its id exactly as it
\* was; upserted again with a newer sync timestamp, the row under the same
\* id holds the record's fields and the newer timestamp.
C3_IdempotentUpsert ==
    [][now' = now =>
        \A h \in last'.handed :
            (/\ SyncTimestampOf(last') # None
             /\ SameRecord(h, store[h.table][h.id])) =>
                IF SyncTimestampOf(last')[1]
                     <= store[h.table][h.id].last_synced_at[1]
                THEN store'[h.table][h.id] = store[h.table][h.id]
                ELSE /\ store'[h.table][h.id].exists
                     /\ store'[h.table][h.id].cols = store[h.table][h.id].cols
                     /\ SameRecord(h, store'[h.table][h.id])
                     /\ store'[h.table][h.id].last_synced_at
                          = SyncTimestampOf(last')]_vars

\* C3 happens: a customer record was upserted again with an older sync
\* timestamp than the one stored, and the row still holds that record.
C3_Witness ==
    \E h \in last.handed :
        /\ h.table = "customers"
        /\ h.rejected
        /\ SameRecord(h, store[h.table][h.id])
        /\ store[h.table][h.id].last_synced_at[1] > h.ts[1]

\* The events that delete rather than upsert.
DeletionEvents ==
    {"customer.deleted", "product.deleted", "price.deleted", "plan.deleted",
     "customer.tax_id.deleted"}

\* The terminal states the trust decision is stated for.
TerminalState(obj) ==
    CASE obj.object = "charge" -> obj.status \in {"failed", "succeeded"}
      [] obj.object = "subscription" ->
            obj.status \in {"canceled", "incomplete_expired"}
      [] obj.object = "invoice" -> obj.status = "void"
      [] obj.object \in {"setup_intent", "payment_intent"} ->
            obj.status \in {"canceled", "succeeded"}
      [] obj.object = "dispute" -> obj.status \in {"won", "lost"}
      [] obj.object = "subscription_schedule" ->
            obj.status \in {"canceled", "completed"}
      [] obj.object = "credit_note" -> obj.status = "void"
      [] obj.object = "customer" -> obj.deleted = "true"
      [] OTHER -> FALSE

RetrieveCalled == RetrieveCalledIn(last)

\* The embedded object of the event is what was handed to the store, and it
\* is what the row holds unless a newer row turned it away.
PayloadStored ==
    \E h \in last.handed :
        /\ h.table = TableOf(last.object.object)
        /\ h.id = last.object.id
        /\ \A col \in h.schema \cap {"data", "status", "deleted"} :
              h[col] = last.object[col]
        /\ ~h.rejected => Written(h, h.ts, store[h.table][h.id], last.at)

TrustDecision ==
    IF TerminalState(last.object)
    THEN ~RetrieveCalled /\ PayloadStored
    ELSE RetrieveCalled <=>
            last.object.object \in config.revalidate_objects_via_stripe_api

C9_SyncTimestampSelection ==
    last.op = "process_event" =>
        \A h \in last.handed : h.ts = SyncTimestampOf(last)

\* C9 happens: a refetched entity was handed to the store, at a wall-clock
\* time that differs from the event's origination time.
C9_Witness ==
    /\ last.op = "process_event"
    /\ RetrieveCalled
    /\ last.handed # {}
    /\ last.at # last.created + tz

\* The refetch of the event's object ended with this outcome.
RefetchEnded(l, outcome) ==
    \E k \in 1..Len(l.calls) :
        /\ l.calls[k].op = "retrieve"
        /\ l.calls[k].table = TableOf(l.object.object)
        /\ l.calls[k].id = l.object.id
        /\ l.calls[k].outcome = outcome

\* C10 (deletion-via-404): when the refetch of a product, price or plan
\* created/updated event returns "resource not found", process_event
\* hard-deletes the row with the event object's id and returns without
\* raising; any other refetch error propagates and leaves the row untouched;
\* for every other kind a not-found on refetch propagates as an error.
C10_DeletionVia404 ==
    [][(now' = now /\ last'.op = "process_event") =>
        LET t == TableOf(last'.object.object)
            id == last'.object.id
        IN  /\ RefetchEnded(last', "resource_missing") =>
                IF t \in {"products", "prices", "plans"}
                THEN /\ last'.err = "none"
                     /\ ~store'[t][id].exists
                     /\ last'.deleted = {<<t, id>>}
                ELSE /\ last'.err = "resource_missing"
                     /\ store' = store
            /\ RefetchEnded(last', "api_error") =>
                /\ last'.err = "api_error"
                /\ store'[t][id] = store[t][id]]_vars

\* C10 happens: the refetch for a product event answered "resource not
\* found" and the product's row was deleted without an error.
C10_Witness ==
    /\ last.op = "process_event"
    /\ last.type \in ProductEvents
    /\ RefetchEnded(last, "resource_missing")
    /\ last.err = "none"
    /\ last.deleted = {<<"products", last.object.id>>}
    /\ ~store["products"][last.object.id].exists

\* C2 (convergence under re-delivery and reordering): once two deployments
\* with no refetch configured have each been delivered every event of the
\* same finite set about one id, in their own orders and any number of
\* times, they store the same row.
C2_Convergence ==
    (replica.seen[1] = replica.events /\ replica.seen[2] = replica.events) =>
        store[TableOf(focus)] = replica.store[TableOf(focus)]

\* The non-deleted stored items of a subscription.
LiveItems(rows, subscription_id) ==
    {i \in IdsOf("subscription_items") :
        /\ rows[i].exists
        /\ rows[i].cols["subscription"] = subscription_id
        /\ rows[i].cols["deleted"] = "false"}

\* A call that processed an update of a subscription to its end.
SubscriptionUpdated(l) ==
    /\ l.op \in {"process_event", "sync_single_entity", "sync_subscriptions"}
    /\ l.object.object = "subscription"
    /\ l.err = "none"

\* Every previously stored non-deleted item of the subscription that is
\* absent from the list carried is flagged deleted.
AbsentItemsFlagged ==
    \A i \in LiveItems(store["subscription_items"], last'.object.id)
               \ ItemIds(last'.object) :
        /\ store'["subscription_items"][i].exists
        /\ store'["subscription_items"][i].cols["deleted"] = "true"

\* No item of the list carried has a stored row newer than the update.
NoItemNewer ==
    \A i \in ItemIds(last'.object) :
        ~(/\ store["subscription_items"][i].exists
          /\ SyncTimestampOf(last') # None
          /\ store["subscription_items"][i].last_synced_at[1]
               > SyncTimestampOf(last')[1])

\* C4 (subscription-item membership), as it holds: after an update for
\* subscription P carrying item list L has been processed (webhook or
\* backfill), every previously stored non-deleted item of P absent from L
\* is flagged deleted; and when no item of L has a stored row with a sync
\* timestamp newer than the update's, the stored non-deleted items of P are
\* exactly the items of L.
C4_ItemMembership ==
    [][(now' = now /\ SubscriptionUpdated(last')) =>
        /\ AbsentItemsFlagged
        /\ NoItemNewer =>
              LiveItems(store'["subscription_items"], last'.object.id)
                = ItemIds(last'.object)]_vars

\* C4 as stated, for every update: violated by an update older than the
\* stored row of one of its items that is flagged deleted.
C4_ItemMembershipEveryUpdate ==
    [][(now' = now /\ SubscriptionUpdated(last')) =>
        /\ AbsentItemsFlagged
        /\ LiveItems(store'["subscription_items"], last'.object.id)
             = ItemIds(last'.object)]_vars

\* C4 happens: an update carrying a non-empty list was processed, a stored
\* item absent from the list is flagged deleted and the non-deleted items
\* are those of the list.
C4_Witness ==
    /\ SubscriptionUpdated(last)
    /\ ItemIds(last.object) # {}
    /\ LiveItems(store["subscription_items"], last.object.id)
         = ItemIds(last.object)
    /\ \E i \in IdsOf("subscription_items") \ ItemIds(last.object) :
          /\ store["subscription_items"][i].exists
          /\ store["subscription_items"][i].cols["deleted"] = "true"

\* The stored entitlement ids of a customer.
StoredEntitlements(rows, customer_id) ==
    {i \in IdsOf("active_entitlements") :
        rows[i].exists /\ rows[i].cols["customer"] = customer_id}

\* A summary event processed to its end.
SummaryProcessed(l) ==
    /\ l.op = "process_event"
    /\ l.type = "entitlements.active_entitlement_summary.updated"
    /\ l.err = "none"

\* After the call the stored entitlements of the summary's customer are
\* those with the ids given, the rows in excess were removed, and the rows
\* of every other customer are as they were.
EntitlementsBecome(ids) ==
    LET z == last'.object.customer
        rows == store["active_entitlements"]
    IN  /\ StoredEntitlements(store'["active_entitlements"], z) = ids
        /\ last'.deleted =
              {<<"active_entitlements", i>> :
                  i \in StoredEntitlements(rows, z) \ ids}
        /\ \A i \in IdsOf("active_entitlements") :
              (rows[i].exists /\ rows[i].cols["customer"] # z) =>
                  store'["active_entitlements"][i] = rows[i]

\* C5 (entitlement diff on the webhook path), as it holds: processing a
\* summary event for customer Z removes every stored entitlement row of Z
\* whose id is not in the list L and upserts L, so that afterwards the
\* stored entitlement rows of Z are exactly L and the rows of every other
\* customer are unchanged, where L is the list of the event, or, when
\* "entitlements" is in the revalidation policy, the list the source API
\* returns for Z.
C5_EntitlementDiff ==
    [][(now' = now /\ SummaryProcessed(last')) =>
        EntitlementsBecome(
            IF Len(last'.calls) > 0 THEN last'.calls[1].ids
            ELSE ItemIds(last'.object))]_vars

\* C5 as stated, with L the list of the event: violated when the list is
\* taken from the source API instead.
C5_EntitlementDiffOfEventList ==
    [][(now' = now /\ SummaryProcessed(last')) =>
        EntitlementsBecome(ItemIds(last'.object))]_vars

\* C5 happens: a summary event was processed, an entitlement of its
\* customer was removed and another is stored.
C5_Witness ==
    /\ SummaryProcessed(last)
    /\ last.deleted # {}
    /\ StoredEntitlements(store["active_entitlements"], last.object.customer)
         # {}
    /\ last.handed # {}

\* The properties that name an entity of another kind, and the table of
\* that kind.
ForeignColumns ==
    {"customer", "invoice", "product", "subscription", "payment_intent",
     "charge", "price"}

ReferencedTable(col) ==
    CASE col = "customer" -> "customers"
      [] col = "invoice" -> "invoices"
      [] col = "product" -> "products"
      [] col = "subscription" -> "subscriptions"
      [] col = "payment_intent" -> "payment_intents"
      [] col = "charge" -> "charges"
      [] col = "price" -> "prices"

\* C6 (referential completeness): with related-entity backfill enabled in
\* the configuration, when a call (process_event, sync_single_entity or a
\* backfill) returns, every row it wrote that references foreign id F of
\* kind customer, invoice, product, subscription, payment_intent or charge
\* has a row for F in that kind's table.
C6_ReferentialCompleteness ==
    (config.backfill_related_entities /\ last.err = "none") =>
        \A h \in last.handed :
            \A col \in (ForeignColumns \ {"price"}) \cap h.schema :
                LET F == store[h.table][h.id].cols[col]
                IN  (~h.rejected /\ F # Null) =>
                        store[ReferencedTable(col)][F].exists

\* The retrieves of a call that failed fetching an entity other than the
\* one the call is about.
FailedDependencyFetches(l) ==
    {l.calls[k] : k \in {j \in 1..Len(l.calls) :
                            /\ l.calls[j].op = "retrieve"
                            /\ l.calls[j].outcome # "ok"
                            /\ l.calls[j].id # l.object.id}}

\* The stored row names the entity in one of its foreign properties.
References(row, table, id) ==
    /\ row.exists
    /\ \E col \in ForeignColumns :
          ReferencedTable(col) = table /\ row.cols[col] = id

----------------------------------------------------------------------------
\* C11: process_event called with an event whose type has no handler ends
\* with the error "Unhandled webhook event"; the call hands no record to the
\* store, removes no row, leaves the store as it was and makes no call of
\* the source API.  An event of a handled type never ends with that error.
C11_UnknownEventRaises ==
    [][last'.op = "process_event" =>
          IF last'.type \in HandledTypes
          THEN last'.err # "unhandled_webhook_event"
          ELSE /\ last'.err = "unhandled_webhook_event"
               /\ last'.calls = <<>>
               /\ last'.handed = {}
               /\ last'.deleted = {}
               /\ store' = store]_vars

\* An unhandled event about a stored object of a kind listed for
\* revalidation has been turned away.
C11_Witness ==
    /\ focus \in HandledKinds
    /\ last.op = "process_event"
    /\ last.type \in UnhandledTypes
    /\ last.err = "unhandled_webhook_event"
    /\ focus \in config.revalidate_objects_via_stripe_api
    /\ store[TableOf(focus)][last.object.id].exists

----------------------------------------------------------------------------
\* The rows of the store a step removes.
RowsRemoved ==
    {<<t, i>> \in UNION {{t} \X IdsOf(t) : t \in Tables} :
        store[t][i].exists /\ ~store'[t][i].exists}

\* The event types that name a deletion the router answers with a delete
\* by primary key.
HardDeleteTypes ==
    {"product.deleted", "price.deleted", "plan.deleted",
     "customer.tax_id.deleted"}

\* C20: over all event types, process_event removes a row by primary key
\* only for the kinds product, price, plan and tax_id: their deletion events
\* (and, for the first three, an update whose refetch finds the object gone)
\* remove the row of the event's object and no other.  An entitlement
\* summary removes entitlement rows of its customer only.  Events of every
\* other kind remove no row.
C20_HardDeleteKinds ==
    [][last'.op = "process_event" =>
          /\ RowsRemoved \subseteq last'.deleted
          /\ \A d \in last'.deleted :
                IF last'.type = "entitlements.active_entitlement_summary.updated"
                THEN d[1] = "active_entitlements"
                ELSE /\ last'.object.object
                          \in {"product", "price", "plan", "tax_id"}
                     /\ d = <<TableOf(last'.object.object), last'.object.id>>
          /\ last'.type \in HardDeleteTypes =>
                /\ last'.deleted =
                      {<<TableOf(last'.object.object), last'.object.id>>}
                /\ ~store'[TableOf(last'.object.object)][last'.object.id].exists
         ]_vars

\* C20 as stated: only rows of products, prices and plans are ever removed.
C20_HardDeleteThreeKinds ==
    [][last'.op = "process_event" =>
          \A d \in RowsRemoved : d[1] \in {"products", "prices", "plans"}]_vars

\* A customer.tax_id.deleted event has removed the tax id's row.
C20_Witness ==
    /\ last.op = "process_event"
    /\ last.type = "customer.tax_id.deleted"
    /\ last.deleted = {<<"tax_ids", last.object.id>>}
    /\ ~store["tax_ids"][last.object.id].exists

----------------------------------------------------------------------------
\* The ways a delivery fails verification.
VerificationFailures ==
    {"SignatureVerificationError", "ValueError", "missing_header"}

\* C12: when the verification of a delivery fails (no signature, a
\* signature made with another secret, or a malformed payload),
\* process_webhook raises the verification error without entering
\* process_event, and the webhook route answers 400 without entering it;
\* either way no row of the store is created, updated or deleted and no
\* call of the source API is made.
C12_VerificationBeforeProcessing ==
    [][(/\ last'.op \in {"process_webhook", "stripe_webhook"}
        /\ last'.verification \in VerificationFailures) =>
          /\ ~last'.entered
          /\ store' = store
          /\ last'.handed = {}
          /\ last'.deleted = {}
          /\ last'.calls = <<>>
          /\ IF last'.op = "process_webhook"
             THEN last'.err = last'.verification
             ELSE last'.status = 400]_vars

\* The store holds the customer, and a delivery about it that fails
\* verification has been turned away by the route.
C12_Witness ==
    /\ last.op = "stripe_webhook"
    /\ last.verification = "SignatureVerificationError"
    /\ last.status = 400
    /\ last.type = "customer.deleted"
    /\ store["customers"]["cus_1"].exists
    /\ store["customers"]["cus_1"].cols["deleted"] # "true"

----------------------------------------------------------------------------
\* ceil(n / d)
Ceil(n, d) == (n + d - 1) \div d

\* The chunks handed to the callback, one after the other.
RECURSIVE Flatten(_)
Flatten(chunks) ==
    IF chunks = <<>> THEN <<>>
    ELSE Head(chunks) \o Flatten(Tail(chunks))

\* C13: the buffer of _fetch_and_upsert never holds more than 250 records,
\* and when the call returns over a listing of N records it has made
\* exactly ceil(N/250) upsert calls (none for N = 0), each but the last of
\* exactly 250 records and the last of 1 to 250, which taken together are
\* the listed records, each once, in listing order.
C13_BackfillChunking ==
    /\ Len(run.chunk) <= chunk_size
    /\ run.phase = "done" =>
          /\ Len(run.upserts) = Ceil(run.synced, chunk_size)
          /\ \A k \in 1..Len(run.upserts) :
                /\ Len(run.upserts[k]) \in 1..chunk_size
                /\ k < Len(run.upserts) => Len(run.upserts[k]) = chunk_size
          /\ Flatten(run.upserts) = [k \in 1..run.synced |-> k]

\* 551 records have been backfilled in calls of 250, 250 and 51.
C13_Witness ==
    /\ run.phase = "done"
    /\ run.synced = 551
    /\ [k \in 1..Len(run.upserts) |-> Len(run.upserts[k])] = <<250, 250, 51>>

----------------------------------------------------------------------------
\* C17: when the upsert of the k-th chunk fails, _fetch_and_upsert ends with
\* the error: the failing call was its last upsert call (no retry), the
\* records of chunks 1..k-1 and no others are stored, and no record after
\* chunk k has been fetched.  A call that returns has stored every record
\* it listed, and a failed call takes no further step.
C17_PartialProgress ==
    /\ (run.phase = "failed" /\ run.err = "store_error") =>
          LET k == Len(run.upserts)
          IN  /\ k >= 1
              /\ run.stored = 1..(chunk_size * (k - 1))
              /\ run.upserts[k] = run.chunk
              /\ run.chunk # <<>>
              /\ run.chunk[Len(run.chunk)] = run.synced
              /\ \A j \in 1..(k - 1) : Len(run.upserts[j]) = chunk_size
    /\ run.phase = "done" => run.stored = 1..run.synced

\* The upsert of the third chunk has failed with the first two stored.
C17_Witness ==
    /\ run.phase = "failed"
    /\ run.err = "store_error"
    /\ Len(run.upserts) = 3
    /\ run.stored = 1..(2 * chunk_size)
    /\ run.synced = 551

----------------------------------------------------------------------------
\* The position of a sync in the sequence of syncs a backfill ran.
Pos(ran, key) == CHOOSE k \in 1..Len(ran) : ran[k] = key

\* The listing calls a call made for a table, in order.
ListCalls(calls, table) ==
    SelectSeq(calls, LAMBDA call : call.op = "list" /\ call.table = table)

\* The number of records those listings returned.
RECURSIVE ListedCount(_)
ListedCount(calls) ==
    IF calls = <<>> THEN 0
    ELSE Cardinality(Head(calls).ids) + ListedCount(Tail(calls))

\* The listings of whole kinds a backfill made, in order.
KindListings(calls) ==
    SelectSeq(calls, LAMBDA call :
        /\ call.op = "list"
        /\ call.table \in SyncBackfillKeys
        /\ call.id = "all")

\* C14: sync_backfill with object 'all' runs the syncs in one fixed order,
\* each at most once and, when the call returns, each of the 17 kinds of
\* the result exactly once: products, prices and plans come before every
\* other kind (products first), customers before subscriptions, invoices
\* and payment methods; the source is listed in that order, and the result
\* maps every kind to the number of records listed for it.
C14_BackfillOrder ==
    (last.op = "sync_backfill" /\ last.object = "all") =>
        /\ \A j, k \in 1..Len(last.ran) : last.ran[j] = last.ran[k] => j = k
        /\ last.ran = SubSeq(AllOrder, 1, Len(last.ran))
        /\ \A j, k \in 1..Len(KindListings(last.calls)) :
              j < k => Pos(last.ran, KindListings(last.calls)[j].table)
                         < Pos(last.ran, KindListings(last.calls)[k].table)
        /\ last.err = "none" =>
              /\ {last.ran[k] : k \in 1..Len(last.ran)} = SyncBackfillKeys
              /\ Pos(last.ran, "products") = 1
              /\ \A key \in SyncBackfillKeys \ {"products", "prices", "plans"} :
                    /\ Pos(last.ran, "prices") < Pos(last.ran, key)
                    /\ Pos(last.ran, "plans") < Pos(last.ran, key)
              /\ \A key \in {"subscriptions", "invoices", "payment_methods"} :
                    Pos(last.ran, "customers") < Pos(last.ran, key)
              /\ \A key \in SyncBackfillKeys :
                    last.result[key] =
                        <<[synced |-> ListedCount(ListCalls(last.calls, key))]>>

\* A backfill of everything has returned, with a record of every kind
\* listed and more than ten customers stored.
C14_Witness ==
    /\ last.op = "sync_backfill"
    /\ last.object = "all"
    /\ last.err = "none"
    /\ \A key \in SyncBackfillKeys : last.result[key] = <<[synced |-> 1]>>
    /\ Len(ListCalls(last.calls, "payment_methods")) > customers_per_chunk

----------------------------------------------------------------------------
\* C15: sync_backfill called with object set to a single kind that SyncObject
\* admits runs exactly one sync, and the returned map has an entry for the
\* kind that ran and None for every other kind.
C15_SingleKindBackfill ==
    (/\ last.op = "sync_backfill"
     /\ last.object \in SyncObject \ {"all"}
     /\ last.err = "none") =>
        /\ Len(last.ran) = 1
        /\ \A key \in SyncBackfillKeys :
              (last.result[key] # None) = (<<key>> = last.ran)

----------------------------------------------------------------------------
\* The stored customers whose deleted flag is not true.
LiveCustomers ==
    {i \in IdsOf("customers") :
        /\ store["customers"][i].exists
        /\ store["customers"][i].cols["deleted"] # "true"}

\* The customers sync_payment_methods listed payment methods for, in order.
ListedFor(l) ==
    [k \in 1..Len(ListCalls(l.calls, "payment_methods")) |->
        ListCalls(l.calls, "payment_methods")[k].id]

\* C16: sync_payment_methods lists payment methods for stored customers
\* whose deleted flag is not true and for no other, each at most once, one
\* after the other in the order of the groups of 10 the customers are cut
\* into; when it returns it has listed for every such customer and the
\* count it returns is the sum of the counts listed per customer; when a
\* listing fails it stops at that customer.
C16_PaymentMethodBackfill ==
    last.op = "sync_payment_methods" =>
        LET order == ListedFor(last)
            chunks == chunk_array(StoredCustomers(CtxOf(store)),
                                  customers_per_chunk)
        IN  /\ \A j, k \in 1..Len(order) : order[j] = order[k] => j = k
            /\ {order[k] : k \in 1..Len(order)} \subseteq LiveCustomers
            /\ order = SubSeq(Flatten(chunks), 1, Len(order))
            /\ \A j \in 1..Len(chunks) :
                  /\ Len(chunks[j]) \in 1..customers_per_chunk
                  /\ j < Len(chunks) => Len(chunks[j]) = customers_per_chunk
            /\ last.err = "none" =>
                  /\ {order[k] : k \in 1..Len(order)} = LiveCustomers
                  /\ last.returned =
                        [synced |-> ListedCount(
                             ListCalls(last.calls, "payment_methods"))]
            /\ last.err # "none" =>
                  last.calls[Len(last.calls)].outcome = last.err

\* More than ten customers are stored and one is deleted; the payment
\* methods of the others have been listed and two were found.
C16_Witness ==
    /\ last.op = "sync_payment_methods"
    /\ last.err = "none"
    /\ Len(ListedFor(last)) > customers_per_chunk
    /\ store["customers"]["cus_2"].exists
    /\ "cus_2" \notin LiveCustomers
    /\ last.returned = [synced |-> 2]

----------------------------------------------------------------------------
\* C19: after sync_entitlements for customer Z has returned over the source
\* listing L, the stored active_entitlements rows of Z are exactly those of
\* L: every stored row of Z absent from L has been removed.
C19_EntitlementBackfillReconciles ==
    (last.op = "sync_entitlements" /\ last.err = "none") =>
        StoredEntitlements(store["active_entitlements"], last.object.customer)
            = ItemIds(last.object)

----------------------------------------------------------------------------
\* C18: if a backfill listed a customer before an event about it
\* originated, the event's record has been written, and only then the
\* backfill upserts what it listed, the stored row still has the event's
\* payload after the backfill's write.
C18_WebhookBeforeBackfillWrite ==
    [][(/\ run.phase = "listing"
        /\ run'.phase = "done"
        /\ last.op = "process_event"
        /\ last.type \in CustomerEvents
        /\ last.err = "none"
        /\ last.object.id = run.chunk[1].id
        /\ run.listed_at < last.created
        /\ store["customers"][last.object.id].exists
        /\ store["customers"][last.object.id].cols["data"] = last.object.data)
          => store'["customers"][last.object.id].cols["data"]
                = last.object.data]_vars

----------------------------------------------------------------------------
\* The schema _upsert_customers is to use for a customer.
SchemaOfCustomer(deleted) ==
    IF Truthy(deleted) THEN customer_deleted_schema ELSE customer_schema

\* C21 (customer deletion variant): _upsert_customers hands every customer
\* of its batch to the customers table and to no other, with the minimal
\* deleted schema exactly when the customer's deleted flag is truthy and
\* with the full schema otherwise, never with both; a customer.deleted
\* event hands over {id, object, deleted = true} with the minimal schema and
\* the event's origination timestamp, makes no call to the source API, and
\* leaves the other columns of the stored row as they were.
C21_CustomerDeletionVariant ==
    [][/\ last'.op = "_upsert_customers" =>
            /\ \A k \in 1..Len(run'.chunk) :
                  \E h \in last'.handed :
                     /\ h.id = run'.chunk[k].id
                     /\ h.deleted = run'.chunk[k].deleted
                     /\ h.data = run'.chunk[k].data
            /\ \A h \in last'.handed :
                  /\ h.table = "customers"
                  /\ h.schema = SchemaOfCustomer(h.deleted)
                  /\ \E k \in 1..Len(run'.chunk) :
                        /\ h.id = run'.chunk[k].id
                        /\ h.deleted = run'.chunk[k].deleted
                  /\ ~h.rejected =>
                        \/ store'["customers"][h.id].cols["deleted"] = h.deleted
                        \/ ~Truthy(h.deleted)
            /\ \A t \in Tables \ {"customers"} : store'[t] = store[t]
       /\ (last'.op = "process_event" /\ last'.type = "customer.deleted") =>
            /\ last'.err = "none"
            /\ last'.calls = <<>>
            /\ ~last'.refetched
            /\ last'.handed =
                  {[table |-> "customers", id |-> last'.object.id,
                    ts |-> <<last'.created + tz>>,
                    schema |-> customer_deleted_schema, data |-> Null,
                    status |-> Null, deleted |-> "true",
                    rejected |-> h.rejected] : h \in last'.handed}
            /\ Cardinality(last'.handed) = 1
            /\ \A t \in Tables \ {"customers"} : store'[t] = store[t]
            /\ \A h \in last'.handed :
                  LET old == store["customers"][h.id]
                      row == store'["customers"][h.id]
                  IN  IF h.rejected THEN row = old
                      ELSE /\ row.exists
                           /\ row.last_synced_at = h.ts
                           /\ row.cols =
                                 [col \in Columns |->
                                    IF col = "object" THEN "customer"
                                    ELSE IF col = "deleted" THEN "true"
                                    ELSE IF old.exists THEN old.cols[col]
                                    ELSE Null]]_vars

\* C21 happens: a batch holding a live and a deleted customer has been
\* written, and the deleted one's row keeps the content it had as a live
\* customer next to its deleted flag.
C21_Witness ==
    /\ last.op = "_upsert_customers"
    /\ \E h, g \in last.handed :
          /\ h.schema = customer_deleted_schema
          /\ g.schema = customer_schema
          /\ ~h.rejected
          /\ store["customers"][h.id].cols["data"] = "v1"
          /\ store["customers"][h.id].cols["deleted"] = "true"

----------------------------------------------------------------------------
\* The list calls made to the source API during the call.
ListCallsIn(l) ==
    {k \in 1..Len(l.calls) : l.calls[k].op = "list"}

\* The lists persisted with the entity in focus.
PersistedLists ==
    {r.items : r \in {x \in run.stored : /\ x.table = TableOf(focus)
                                         /\ x.id = last.object.id}}

\* C22 (list expansion): with auto-expand on, an entity whose embedded list
\* reports has_more = true causes one listing of the source API and is
\* persisted with the list replaced by the items of all pages and
\* has_more = false; an entity whose list reports has_more = false (or that
\* embeds none) causes no listing call and is persisted with the list
\* unchanged.
C22_ListExpansion ==
    (/\ last.op = "process_event"
     /\ focus \in ExpandedKinds
     /\ config.auto_expand_lists
     /\ last.err = "none") =>
        IF last.object.items.present /\ last.object.items.has_more
        THEN /\ Cardinality(ListCallsIn(last)) = 1
             /\ \A k \in ListCallsIn(last) :
                   /\ last.calls[k].table = ListingOf(focus)
                   /\ last.calls[k].id = last.object.id
             /\ PersistedLists =
                   {[present |-> TRUE, data |-> AllPages(focus),
                     has_more |-> FALSE]}
             /\ focus = "subscription" =>
                   {h.id : h \in {x \in last.handed :
                                    x.table = "subscription_items"}}
                     = {AllPages(focus)[k].id : k \in 1..Len(AllPages(focus))}
        ELSE /\ ListCallsIn(last) = {}
             /\ PersistedLists = {last.object.items}

\* C22 happens: a subscription whose payload embedded only the first page
\* of its items has been persisted after an expansion, and the item of the
\* second page is stored.
C22_Witness ==
    /\ last.op = "process_event"
    /\ focus = "subscription"
    /\ config.auto_expand_lists
    /\ last.err = "none"
    /\ last.object.items.has_more
    /\ ListCallsIn(last) # {}
    /\ store["subscription_items"]["si_B"].exists

\* C23 (auto-expand off): with auto_expand_lists off, persisting an invoice,
\* a charge, a subscription or a checkout session makes no listing call to
\* the source API, and the embedded list is stored as the source delivered
\* it.
C23_AutoExpandDisabled ==
    (/\ last.op = "process_event"
     /\ focus \in {"invoice", "charge", "subscription", "checkout.session"}
     /\ ~config.auto_expand_lists) =>
        /\ ListCallsIn(last) = {}
        /\ last.err = "none" => PersistedLists = {last.object.items}

----------------------------------------------------------------------------
\* The retrieve calls of a table made during the call.
RetrievesOf(l, table) ==
    {k \in 1..Len(l.calls) :
        l.calls[k].op = "retrieve" /\ l.calls[k].table = table}

\* Dispatch of sync_single_entity: the id passes the test of at most one
\* branch; an id that passes none causes no call and no write; otherwise
\* the first call is the retrieve of the selected kind with the id, and it
\* is the only retrieve of that kind.
DispatchedByPrefix(l) ==
    /\ Cardinality(Matching(l.object.id)) <= 1
    /\ IF Matching(l.object.id) = {}
       THEN l.calls = <<>> /\ l.handed = {} /\ l.deleted = {}
       ELSE /\ l.calls # <<>>
            /\ RetrievesOf(l, PrefixTable(l.object.id)) = {1}
            /\ l.calls[1].id = l.object.id

\* The retrieved object is to be written: the retrieve succeeded, and the
\* object is not a customer (one retrieved as deleted is not written).
ToBeWritten(l) ==
    /\ Matching(l.object.id) # {}
    /\ l.calls[1].outcome = "ok"
    /\ PrefixTable(l.object.id) # "customers"

\* C24 (sync_single_entity dispatch, as the code has it): the id's prefix
\* selects at most one kind; for an id with a recognised prefix exactly one
\* retrieve of that kind is issued, first, and every record handed to that
\* kind's table is the retrieved object; records of related kinds (the
\* customer of a charge, the items of a subscription) may be written to
\* their own tables; an id with no recognised prefix causes no retrieve
\* and no store write.
C24_SingleEntityDispatch ==
    last.op = "sync_single_entity" =>
        /\ DispatchedByPrefix(last)
        /\ \A h \in last.handed :
              h.table = PrefixTable(last.object.id) => h.id = last.object.id
        /\ (last.err = "none" /\ ToBeWritten(last)) =>
              \E h \in last.handed :
                 h.table = PrefixTable(last.object.id) /\ h.id = last.object.id

\* C24 as stated: the result is upserted into the selected kind's table
\* only.
C24_SingleEntityDispatchOneTable ==
    last.op = "sync_single_entity" =>
        /\ DispatchedByPrefix(last)
        /\ \A h \in last.handed : h.table = PrefixTable(last.object.id)

\* C24 happens: a charge has been synced by its id, and its customer has
\* been written along with it.
C24_Witness ==
    /\ last.op = "sync_single_entity"
    /\ last.object.id = "ch_1"
    /\ last.err = "none"
    /\ \E h, g \in last.handed : h.table = "charges" /\ g.table = "customers"

----------------------------------------------------------------------------
\* The subscriptions of a user with status 'active'.
ActiveOf(rows, user_id) ==
    {k \in 1..Len(rows) :
        rows[k].user_id = user_id /\ rows[k].status = "active"}

\* C25 (one active subscription after creation): when
\* create_subscription(user, tier) returns, every subscription of the user
\* that was 'active' before has status 'cancelled', the new subscription is
\* the user's only 'active' one, and no other row has changed; with an
\* unknown user or tier it raises ValueError and changes no subscription.
C25_OneActiveAfterCreation ==
    [][last'.op = "create_subscription" =>
         IF last'.args.user_id \in Users
               /\ last'.args.tier_id \in SubscriptionTiers
         THEN /\ last'.err = "none"
              /\ Len(user_subscriptions') = Len(user_subscriptions) + 1
              /\ last'.returned = Len(user_subscriptions')
              /\ ActiveOf(user_subscriptions', last'.args.user_id)
                    = {last'.returned}
              /\ user_subscriptions'[last'.returned].tier_id
                    = last'.args.tier_id
              /\ \A k \in 1..Len(user_subscriptions) :
                    user_subscriptions'[k] =
                      IF k \in ActiveOf(user_subscriptions,
                                        last'.args.user_id)
                      THEN [user_subscriptions[k] EXCEPT
                               !.status = "cancelled"]
                      ELSE user_subscriptions[k]
         ELSE /\ last'.err = "ValueError"
              /\ user_subscriptions' = user_subscriptions]_vars

\* C25 happens: a user who had an active subscription has a new one, and
\* the earlier one is cancelled.
C25_Witness ==
    /\ last.op = "create_subscription"
    /\ last.err = "none"
    /\ \E k \in 1..Len(user_subscriptions) :
          /\ k # last.returned
          /\ user_subscriptions[k].user_id = last.args.user_id
          /\ user_subscriptions[k].status = "cancelled"

\* C26 (Stripe status mapping): update_from_stripe(id, status) sets a local
\* subscription with that Stripe id to 'active' for active, 'suspended' for
\* past_due or unpaid and 'cancelled' for canceled, leaves its status as it
\* was for every other status, changes no other row, and returns it; when
\* no subscription has that Stripe id it returns None and changes nothing.
C26_StripeStatusMapping ==
    [][last'.op = "update_from_stripe" =>
         LET id == last'.args.stripe_subscription_id
             status == last'.args.status
             k == last'.returned
         IN  IF FirstMatching(user_subscriptions, id) = {}
             THEN k = 0 /\ user_subscriptions' = user_subscriptions
             ELSE /\ k \in FirstMatching(user_subscriptions, id)
                  /\ user_subscriptions'[k].status =
                        CASE status = "active" -> "active"
                          [] status \in {"past_due", "unpaid"} -> "suspended"
                          [] status = "canceled" -> "cancelled"
                          [] OTHER -> user_subscriptions[k].status
                  /\ user_subscriptions' =
                        [user_subscriptions EXCEPT
                            ![k].status = user_subscriptions'[k].status]]_vars

\* C26 happens: a subscription has been suspended by a past_due status.
C26_Witness ==
    /\ last.op = "update_from_stripe"
    /\ last.args.status = "past_due"
    /\ last.returned # 0
    /\ user_subscriptions[last.returned].status = "suspended"

----------------------------------------------------------------------------
(* Two process_event invocations for one subscription, statement by        *)
(* statement: no lock and no transaction spans the statements of           *)
(* _upsert_subscriptions                                                   *)

\* The two events: updates of the one subscription with different items.
ConcurrentEvents ==
    {<<e1, e2>> \in
        [type : {"customer.subscription.updated"}, created : 0..MaxTime,
         object : {SubscriptionWith(FirstId("subscriptions"), L, "v1") :
                      L \in SUBSET IdsOf("subscription_items")}]
        \X [type : {"customer.subscription.updated"}, created : 0..MaxTime,
            object : {SubscriptionWith(FirstId("subscriptions"), L, "v2") :
                         L \in SUBSET IdsOf("subscription_items")}] :
        ItemIds(e1.object) # ItemIds(e2.object)}

\* An invocation that has received its event and issued no statement.
Invocation(event) == [pc |-> "received", event |-> event, selected |-> {}]

\* The invocation takes its next statement.
Advance(h, pc, selected, rows) ==
    /\ store' = rows
    /\ handlers' = [handlers EXCEPT ![h].pc = pc, ![h].selected = selected]
    /\ UNCHANGED <<now, tz, config, focus, last, replica, run, user_subscriptions, invitations, service>>

\* upsert_many_with_timestamp_protection of the subscription row.
UpsertSubscriptionRow ==
    \E h \in 1..Len(handlers) :
      /\ handlers[h].pc = "received"
      /\ Advance(h, "subscription", {},
                 upsert_many_with_timestamp_protection(
                     NewCtx, <<handlers[h].event.object>>, "subscriptions",
                     subscription_schema,
                     _get_sync_timestamp(handlers[h].event, FALSE)).store)

\* _upsert_subscription_items of the items the event carries.
UpsertItemRows ==
    \E h \in 1..Len(handlers) :
      /\ handlers[h].pc = "subscription"
      /\ Advance(h, "items", {},
                 _upsert_subscription_items(
                     NewCtx, AllItems(<<handlers[h].event.object>>, 1),
                     _get_sync_timestamp(handlers[h].event, FALSE)).store)

\* The SELECT of _mark_deleted_subscription_items: the ids of the stored
\* items of the subscription that are not deleted.
SelectLiveItems ==
    \E h \in 1..Len(handlers) :
      /\ handlers[h].pc = "items"
      /\ Advance(h, "selected",
                 {i \in IdsOf("subscription_items") :
                     /\ store["subscription_items"][i].exists
                     /\ store["subscription_items"][i].cols["subscription"]
                          = handlers[h].event.object.id
                     /\ store["subscription_items"][i].cols["deleted"]
                          = "false"},
                 store)

\* The UPDATE of _mark_deleted_subscription_items: the selected ids that
\* the event does not carry are flagged deleted.
UpdateDeleted ==
    \E h \in 1..Len(handlers) :
      /\ handlers[h].pc = "selected"
      /\ Advance(h, "done", handlers[h].selected,
                 [store EXCEPT !["subscription_items"] =
                     [i \in IdsOf("subscription_items") |->
                         IF /\ i \in handlers[h].selected
                            /\ i \notin ItemIds(handlers[h].event.object)
                            /\ @[i].exists
                         THEN [@[i] EXCEPT !.cols["deleted"] = "true"]
                         ELSE @[i]]])

InitConc ==
    /\ store = EmptyStore
    /\ now = MaxTime
    /\ tz = 0
    /\ focus = "subscription"
    /\ config \in Configs({{}}, {FALSE})
    /\ last = Observe("init", NoEvent, [ctx |-> NewCtx, refetched |-> FALSE])
    /\ replica = NoReplica
    /\ run = NoRun
    /\ user_subscriptions = <<>>
    /\ invitations = <<>>
    /\ service = NoService
    /\ \E es \in ConcurrentEvents :
          handlers = <<Invocation(es[1]), Invocation(es[2])>>

NextConc ==
    \/ UpsertSubscriptionRow
    \/ UpsertItemRows
    \/ SelectLiveItems
    \/ UpdateDeleted

SpecConc == InitConc /\ [][NextConc]_vars

\* The invocation whose event has the greater sync timestamp.
Newer ==
    CHOOSE h \in 1..Len(handlers) :
        \A g \in 1..Len(handlers) :
            handlers[g].event.created <= handlers[h].event.created

\* C27 (concurrent subscription updates): when two process_event
\* invocations for one subscription with different item lists and different
\* sync timestamps have both finished, however their store statements
\* interleaved, the stored non-deleted items of the subscription are exactly
\* the items of the event with the greater sync timestamp.
C27_ConcurrentSubscriptionUpdates ==
    (/\ Len(handlers) = 2
     /\ \A h \in 1..2 : handlers[h].pc = "done"
     /\ handlers[1].event.created # handlers[2].event.created)
    => LiveItems(store["subscription_items"],
                 handlers[1].event.object.id)
          = ItemIds(handlers[Newer].event.object)

\* A subscription event processed to its end whose sync timestamp is older
\* than the stored row of its subscription: the guard rejects the write.
StaleSubscriptionEvent ==
    /\ now' = now
    /\ last'.op = "process_event"
    /\ last'.object.object = "subscription"
    /\ last'.err = "none"
    /\ store["subscriptions"][last'.object.id].exists
    /\ SyncTimestampOf(last') # None
    /\ store["subscriptions"][last'.object.id].last_synced_at[1]
         > SyncTimestampOf(last')[1]

\* C28 (stale subscription event leaves items alone): when a subscription
\* event whose sync timestamp is older than the stored subscription row's
\* is processed, no stored item of that subscription changes its deleted
\* flag.
C28_StaleEventLeavesItems ==
    [][StaleSubscriptionEvent =>
         \A i \in IdsOf("subscription_items") :
            (/\ store["subscription_items"][i].exists
             /\ store["subscription_items"][i].cols["subscription"]
                  = last'.object.id)
            => store'["subscription_items"][i].cols["deleted"]
                 = store["subscription_items"][i].cols["deleted"]]_vars

\* The events that hard-delete the row of a product, a price or a plan, and
\* the events that write one.
CatalogueDeletions == {"product.deleted", "price.deleted", "plan.deleted"}

CatalogueWrites ==
    {"product.created", "product.updated", "price.created", "price.updated",
     "plan.created", "plan.updated"}

\* The call just made processed a creation or an update that originated
\* before the deletion the call before it processed, about the same id.
EarlierWriteAfterDeletion ==
    /\ now' = now
    /\ last.op = "process_event"
    /\ last.type \in CatalogueDeletions
    /\ last.err = "none"
    /\ last'.op = "process_event"
    /\ last'.type \in CatalogueWrites
    /\ last'.object.id = last.object.id
    /\ last'.created < last.created

\* C29 (no resurrection after deletion): once a product.deleted (or
\* price.deleted, plan.deleted) event for an id has been processed,
\* processing a creation or an update of that id that originated earlier
\* than the deletion does not recreate its row.
C29_NoResurrection ==
    [][EarlierWriteAfterDeletion =>
         \A d \in last.deleted :
            d[2] = last'.object.id => ~store'[d[1]][d[2]].exists]_vars

----------------------------------------------------------------------------
(* The _upsert_<kind> operations called with each per-call value of        *)
(* backfill_related_entities                                               *)

\* Kinds whose records reference a customer and nothing else here.
ToggledKinds == {"charge", "payment_method", "subscription", "setup_intent"}

UpsertName(kind) ==
    CASE kind = "charge" -> "_upsert_charges"
      [] kind = "payment_method" -> "_upsert_payment_methods"
      [] kind = "subscription" -> "_upsert_subscriptions"
      [] kind = "setup_intent" -> "_upsert_setup_intents"

UpsertNames == {UpsertName(kind) : kind \in ToggledKinds}

\* The _upsert_<kind> operation of a kind.
UpsertOf(kind, c, entries, backfill_related_entities, api) ==
    CASE kind = "charge" ->
           _upsert_charges(c, entries, backfill_related_entities, None, api)
      [] kind = "payment_method" ->
           _upsert_payment_methods(c, entries, backfill_related_entities,
                                   None, api)
      [] kind = "subscription" ->
           _upsert_subscriptions(c, entries, backfill_related_entities,
                                 None, api)
      [] kind = "setup_intent" ->
           _upsert_setup_intents(c, entries, backfill_related_entities,
                                 None, api)

\* The end of an _upsert_<kind> call: the per-call value is on record.
Toggled(backfill_related_entities, object, c) ==
    /\ store' = c.store
    /\ last' = [per_call |-> backfill_related_entities]
                 @@ Observe(UpsertName(focus),
                            [NoEvent EXCEPT !.object = object],
                            [ctx |-> c, refetched |-> FALSE])
    /\ UNCHANGED <<now, tz, config, focus, replica, run, user_subscriptions, handlers, invitations, service>>

\* One record of the kind in focus, referencing customer cus_1 or none, is
\* upserted; the source API knows the customer or fails.
UpsertWithToggle ==
    \E backfill_related_entities \in {"None", "True", "False"} :
      \E z \in {Null, "cus_1"}, d \in DataVals :
        \E answer \in {Found([Blank("customer", "cus_1") EXCEPT !.data = d]),
                       Failed("api_error")} :
          Toggled(backfill_related_entities,
                  [Blank(focus, FirstId(TableOf(focus))) EXCEPT
                      !.data = d, !.customer = z],
                  UpsertOf(focus, NewCtx,
                           <<[Blank(focus, FirstId(TableOf(focus))) EXCEPT
                                 !.data = d, !.customer = z]>>,
                           backfill_related_entities,
                           [EmptyApi EXCEPT
                               !.retrieve["customers"]["cus_1"] = answer]))

InitToggle ==
    /\ store = EmptyStore
    /\ now = 0
    /\ tz = 0
    /\ focus \in ToggledKinds
    /\ config \in Configs({{}}, BOOLEAN)
    /\ last = [per_call |-> "None"]
                @@ Observe("init", NoEvent,
                           [ctx |-> NewCtx, refetched |-> FALSE])
    /\ replica = NoReplica
    /\ run = NoRun
    /\ user_subscriptions = <<>>
    /\ handlers = <<>>
    /\ invitations = <<>>
    /\ service = NoService

NextToggle == UpsertWithToggle \/ Tick

SpecToggle == InitToggle /\ [][NextToggle]_vars

\* The customers the records of the call reference that had no live row
\* when the call began.
MissingCustomers ==
    {z \in {last'.object.customer} \ {Null} :
        ~(/\ store["customers"][z].exists
          /\ store["customers"][z].cols["deleted"] # "true")}

\* The ids the call retrieved from the source API.
Retrieved(l) ==
    {<<l.calls[k].table, l.calls[k].id>> : k \in 1..Len(l.calls)}

----------------------------------------------------------------------------
\* C31 (reconciliation never removes subscription items): under any
\* sequence of subscription events and subscription backfills every stored
\* subscription_items row stays stored; a row the call's list does not carry
\* is left as it was or has only its deleted flag set to true.
C31_ItemsNeverRemoved ==
    [][\A i \in IdsOf("subscription_items") :
          store["subscription_items"][i].exists =>
             /\ store'["subscription_items"][i].exists
             /\ (now' = now /\ i \notin ItemIds(last'.object)) =>
                   store'["subscription_items"][i]
                     \in {store["subscription_items"][i],
                          [store["subscription_items"][i] EXCEPT
                              !.cols["deleted"] = "true"]}]_vars

\* C31 happens: an update that no longer carries a stored item has been
\* processed, and the item's row is stored with deleted = true.
C31_Witness ==
    /\ SubscriptionUpdated(last)
    /\ \E i \in IdsOf("subscription_items") \ ItemIds(last.object) :
          /\ store["subscription_items"][i].exists
          /\ store["subscription_items"][i].cols["subscription"]
               = last.object.id
          /\ store["subscription_items"][i].cols["deleted"] = "true"

----------------------------------------------------------------------------
(* A store statement of _upsert_subscriptions fails: no transaction spans  *)
(* the subscription upsert, the item upsert and the marking of items       *)

\* The statements after the subscription upsert that may fail.
FailingSteps == {"_upsert_subscription_items", "_mark_deleted_subscription_items"}

\* A faulty variant: the failure undoes the subscription upsert.
UpsertSubscriptionsRolledBack(c, subs, sync_timestamp, failing) ==
    Raise(c, "store_error")

\* _upsert_subscriptions as process_event calls it (no backfill, lists not
\* expanded) with the store raising at one statement: the statements before
\* it are committed, the ones after it are not reached.
UpsertSubscriptionsFailing(c, subs, sync_timestamp, failing) ==
    IF failing = "_upsert_subscription_items"
    THEN Raise(upsert_many_with_timestamp_protection(
                   c, subs, "subscriptions", subscription_schema,
                   sync_timestamp),
               "store_error")
    ELSE Raise(_upsert_subscription_items(
                   upsert_many_with_timestamp_protection(
                       c, subs, "subscriptions", subscription_schema,
                       sync_timestamp),
                   AllItems(subs, 1), sync_timestamp),
               "store_error")

\* The end of a delivery whose failure is under watch: the store the failed
\* call began with stays on record.
Watched(before, failing, retry, event, c) ==
    /\ store' = c.store
    /\ last' = [before |-> before, failing |-> failing, retry |-> retry]
                 @@ Observe("process_event", event,
                            [ctx |-> c, refetched |-> FALSE])
    /\ UNCHANGED <<now, tz, config, focus, replica, run, user_subscriptions, handlers, invitations, service>>

\* A subscription event during whose processing the store fails.
SubscriptionEventFailing ==
    \E type \in {"customer.subscription.updated"}, created \in 0..now :
      \E sub \in Subscriptions, failing \in FailingSteps :
        Watched(store, failing, FALSE,
                [type |-> type, created |-> created, object |-> sub],
                UpsertSubscriptionsFailing(
                    NewCtx, <<sub>>,
                    _get_sync_timestamp(
                        [type |-> type, created |-> created, object |-> sub],
                        FALSE),
                    failing))

\* The event whose processing failed is delivered again, the store working.
Reprocess ==
    /\ "failing" \in DOMAIN last
    /\ last.err = "store_error"
    /\ Watched(last.before, "none", TRUE,
               [type |-> last.type, created |-> last.created,
                object |-> last.object],
               process_event(NewCtx,
                             [type |-> last.type, created |-> last.created,
                              object |-> last.object],
                             NoApi).ctx)

\* The engine with every event originated already: the clock stands.
InitFail ==
    /\ store = EmptyStore
    /\ now = MaxTime
    /\ tz = 0
    /\ focus = "subscription"
    /\ config \in Configs({{}}, {FALSE})
    /\ last = Observe("init", NoEvent, [ctx |-> NewCtx, refetched |-> FALSE])
    /\ replica = NoReplica
    /\ run = NoRun
    /\ user_subscriptions = <<>>
    /\ handlers = <<>>
    /\ invitations = <<>>
    /\ service = NoService

NextFail ==
    \/ SubscriptionEventFailing
    \/ Reprocess

SpecFail == InitFail /\ [][NextFail]_vars

\* The store a failure-free processing of the watched event produces from
\* the store the failed call began with.
FailureFree ==
    process_event(CtxOf(last.before),
                  [type |-> last.type, created |-> last.created,
                   object |-> last.object],
                  NoApi).ctx.store

\* C32 (non-atomic write path): when the item upsert or the marking of
\* items fails after the subscription upsert, the call ends with the error
\* and the subscription row is stored as a failure-free run stores it (when
\* the item upsert failed, no item row has changed); processing the same
\* event again ends without error with the store a failure-free run would
\* have produced.
C32_NonAtomicWritePath ==
    "failing" \in DOMAIN last =>
        IF last.retry
        THEN last.err = "none" /\ store = FailureFree
        ELSE /\ last.err = "store_error"
             /\ store["subscriptions"] = FailureFree["subscriptions"]
             /\ store["subscriptions"][last.object.id].exists
             /\ last.failing = "_upsert_subscription_items" =>
                   store["subscription_items"]
                     = last.before["subscription_items"]

\* C32 happens: the event was processed again after a failure; an item it
\* carries that the store lacked before the failed call is stored, and a
\* stored item it does not carry is flagged.
C32_Witness ==
    /\ "failing" \in DOMAIN last
    /\ last.retry
    /\ \E i \in ItemIds(last.object) :
          /\ ~last.before["subscription_items"][i].exists
          /\ store["subscription_items"][i].exists
    /\ \E i \in IdsOf("subscription_items") \ ItemIds(last.object) :
          /\ last.before["subscription_items"][i].exists
          /\ last.before["subscription_items"][i].cols["deleted"] = "false"
          /\ store["subscription_items"][i].cols["deleted"] = "true"

----------------------------------------------------------------------------
\* C33 (sync timestamps share one clock): a write whose entity was
\* refetched carries a sync timestamp not smaller than that of the write of
\* a non-refetched event processed before it (so originated at or before
\* the time of the refetch), for every time-zone offset of the host.
C33_OneClock ==
    [][(/\ last.op = "process_event"
        /\ ~last.refetched
        /\ last'.op = "process_event"
        /\ last'.refetched)
       => \A h \in last.handed, g \in last'.handed :
             (h.ts # None /\ g.ts # None) => g.ts[1] >= h.ts[1]]_vars


----------------------------------------------------------------------------
(* The webhook route in full: the engine's lifetime, the answer and the    *)
(* payment recorded against an invitation                                  *)

\* A row of Invitation, by the columns the route reads and writes.
InvitationRow(code, requires_payment) ==
    [code |-> code, requires_payment |-> requires_payment,
     payment_completed |-> FALSE, stripe_customer_id |-> Null,
     stripe_subscription_id |-> Null]

\* str.lower / db.func.lower on an invitation code.
Lower(code) ==
    CASE code = "INV_A" -> "inv_a"
      [] code = "Inv_B" -> "inv_b"
      [] OTHER -> code

\* Query.first(): the first of the matching rows, 0 for None.
First(matching) ==
    IF matching = {} THEN 0
    ELSE CHOOSE k \in matching : \A j \in matching : k <= j

\* What payment tracking ends with: the rows, whether it ran, and whether
\* it caught an error (then the session was rolled back).
TrackingDone(rows, failed) == [rows |-> rows, ran |-> TRUE, failed |-> failed]

NotTracked(rows) == [rows |-> rows, ran |-> FALSE, failed |-> FALSE]

\* A faulty variant: a cancellation leaves the payment recorded.
PaymentKept(rows, k) == rows

\* invitation.payment_completed = False, for the invitation in row k.
PaymentIncomplete(rows, k) == [rows EXCEPT ![k].payment_completed = FALSE]

\* _handle_payment_tracking: db_up tells whether the statements against
\* the application's database succeed.
_handle_payment_tracking(rows, event, metadata_code, client_reference_id, db_up) ==
    LET event_type == event.type
        event_data == event.object
    IN
    IF event_type = "checkout.session.completed" THEN
        LET invitation_code == IF Truthy(metadata_code) THEN metadata_code
                               ELSE client_reference_id
            k == First({j \in DOMAIN rows :
                          Lower(rows[j].code) = Lower(invitation_code)})
        IN  IF ~Truthy(invitation_code) THEN TrackingDone(rows, FALSE)
            ELSE IF ~db_up THEN TrackingDone(rows, TRUE)
            ELSE IF k # 0 /\ rows[k].requires_payment
            THEN TrackingDone(
                     [rows EXCEPT
                         ![k].stripe_customer_id = event_data.customer,
                         ![k].stripe_subscription_id = event_data.subscription],
                     FALSE)
            ELSE TrackingDone(rows, FALSE)
    ELSE IF event_type \in {"customer.subscription.created",
                            "customer.subscription.updated"} THEN
        LET subscription_id == event_data.id
            customer_id == event_data.customer
            status == event_data.status
            k == First({j \in DOMAIN rows :
                          \/ rows[j].stripe_subscription_id = subscription_id
                          \/ rows[j].stripe_customer_id = customer_id})
        IN  IF ~(status \in {"active", "trialing"} /\ Truthy(subscription_id))
            THEN TrackingDone(rows, FALSE)
            ELSE IF ~db_up THEN TrackingDone(rows, TRUE)
            ELSE IF /\ k # 0
                    /\ rows[k].requires_payment
                    /\ ~rows[k].payment_completed
            THEN TrackingDone(
                     [rows EXCEPT
                         ![k].payment_completed = TRUE,
                         ![k].stripe_subscription_id = subscription_id,
                         ![k].stripe_customer_id = customer_id],
                     FALSE)
            ELSE TrackingDone(rows, FALSE)
    ELSE IF event_type \in {"customer.subscription.deleted",
                            "customer.subscription.paused"} THEN
        LET subscription_id == event_data.id
            k == First({j \in DOMAIN rows :
                          rows[j].stripe_subscription_id = subscription_id})
        IN  IF ~Truthy(subscription_id) THEN TrackingDone(rows, FALSE)
            ELSE IF ~db_up THEN TrackingDone(rows, TRUE)
            ELSE IF k # 0
            THEN TrackingDone(PaymentIncomplete(rows, k), FALSE)
            ELSE TrackingDone(rows, FALSE)
    ELSE TrackingDone(rows, FALSE)

\* What a request to the route ends with: as a delivery, with what
\* process_event raised, the engine's lifetime (constructed, its database
\* client closed) and the payment tracking.
RouteOutcome(res, tracking, constructed, closed, status, verification) ==
    [raised |-> res.ctx.err, constructed |-> constructed, closed |-> closed,
     tracked |-> tracking.ran, tracking_failed |-> tracking.failed,
     rows |-> tracking.rows]
    @@ Outcome([ctx |-> [res.ctx EXCEPT !.err = "none"],
                refetched |-> res.refetched],
               constructed, status, verification)

\* The route returning before the engine is constructed.
RouteRefused(c, rows, status, verification) ==
    RouteOutcome(Done(c, FALSE), NotTracked(rows), FALSE, FALSE, status,
                 verification)

\* A faulty variant: the payment is tracked whether process_event raised
\* or not, and the answer is 200.
RouteAnsweredRegardless(res, rows, payload, db_up) ==
    RouteOutcome(res,
                 _handle_payment_tracking(rows, payload.event,
                                          payload.metadata_code,
                                          payload.client_reference_id, db_up),
                 TRUE, TRUE, 200, "verified")

\* The inner try of the route: process_event has returned or raised (res);
\* payment tracking follows a return; the finally clause closes the
\* engine's database client; an exception reaches the catch-all.
RouteAnswered(res, rows, payload, db_up) ==
    IF Ok(res.ctx)
    THEN RouteOutcome(res,
                      _handle_payment_tracking(rows, payload.event,
                                               payload.metadata_code,
                                               payload.client_reference_id,
                                               db_up),
                      TRUE, TRUE, 200, "verified")
    ELSE RouteOutcome(res, NotTracked(rows), TRUE, TRUE, 500, "verified")

\* sync_engine.process_event with the store of the engine up or down: down,
\* the first statement against it raises.
EngineProcessEvent(c, event, api, store_up) ==
    IF store_up \/ event.type \notin HandledTypes
    THEN process_event(c, event, api)
    ELSE Done(Raise(c, "store_error"), FALSE)

\* POST /webhooks/stripe, with the payment tracking and the engine's
\* clean-up.
stripe_webhook_route(c, rows, settings, payload, sig_header, api, store_up, db_up) ==
    IF settings.stripe_webhooks = Null THEN RouteRefused(c, rows, 503, "none")
    ELSE IF settings.stripe_webhooks = "unparsable"
    THEN RouteRefused(c, rows, 500, "none")
    ELSE IF settings.stripe_webhooks = "no_secret"
    THEN RouteRefused(c, rows, 500, "none")
    ELSE IF sig_header = Null THEN RouteRefused(c, rows, 400, "missing_header")
    ELSE IF ~construct_event(payload, sig_header, settings.stripe_webhooks).ok
    THEN RouteRefused(c, rows, 400,
                      construct_event(payload, sig_header,
                                      settings.stripe_webhooks).code)
    ELSE IF settings.stripe_secret_key = Null
    THEN RouteRefused(c, rows, 500, "verified")
    ELSE RouteAnswered(EngineProcessEvent(c, payload.event, api, store_up),
                       rows, payload, db_up)


\* The invitations of the application: two that may each require payment.
Invitations ==
    {<<InvitationRow("inv_a", ra), InvitationRow("inv_b", rb)>> :
        ra \in BOOLEAN, rb \in BOOLEAN}

\* The subscription of the first invitation's customer, in a status.
RouteSubscription(status) ==
    [SubscriptionWith("sub_1", {}, "v1") EXCEPT !.status = status]

\* A checkout session of a customer, for a subscription or a single payment.
RouteSession(customer, subscription) ==
    [Blank("checkout.session", "cs_1") EXCEPT
        !.data = "v1", !.customer = customer, !.subscription = subscription]

\* The bodies posted to the route.  Each invitation is paid for by a
\* customer of its own: the first by subscription (its code in the
\* session's metadata or its client_reference_id, in any case of letters),
\* the second by a single payment; a session may also name no invitation, or
\* one that does not exist.
RouteBody(type, object, metadata_code, client_reference_id) ==
    [event |-> [type |-> type, created |-> 0, object |-> object],
     metadata_code |-> metadata_code,
     client_reference_id |-> client_reference_id]

RouteBodies ==
    {RouteBody(type, RouteSubscription(status), Null, Null) :
        type \in {"customer.subscription.created",
                  "customer.subscription.updated",
                  "customer.subscription.deleted",
                  "customer.subscription.paused"},
        status \in {"active", "trialing", "canceled"}}
    \cup {RouteBody("checkout.session.completed",
                    RouteSession("cus_1", "sub_1"), m, r) :
            m \in {Null, "INV_A"}, r \in {Null, "inv_a", "inv_x"}}
    \cup {RouteBody("checkout.session.completed",
                    RouteSession("cus_2", Null), "Inv_B", Null)}
    \cup {RouteBody("payout.paid", Blank("customer", "cus_1"), Null, Null)}

\* The source API as the route's engine may find it: the line items of the
\* session are listed (there are none), or every call fails.
RouteApis ==
    {NoApi,
     [NoApi EXCEPT !.list["checkout_session_line_items"]["cs_1"] =
                       Listed(<<>>)]}

\* A request: the body with its signature, the Stripe-Signature header, the
\* settings, the source API, and whether the engine's store and the
\* application's database are up.
Request(body, secret, sig_header, settings, api, store_up, db_up) ==
    [payload |-> [signed_with |-> secret, well_formed |-> TRUE] @@ body,
     sig_header |-> sig_header, settings |-> settings, api |-> api,
     store_up |-> store_up, db_up |-> db_up]

\* The requests the route may receive: those it serves, under complete
\* settings and a good signature, and those it turns away.
Requests ==
    {Request(body, stripe_webhook_secret, stripe_webhook_secret,
             [stripe_webhooks |-> stripe_webhook_secret,
              stripe_secret_key |-> "sk_1"], api, store_up, db_up) :
        body \in RouteBodies, api \in RouteApis,
        store_up \in BOOLEAN, db_up \in BOOLEAN}
    \cup {Request(RouteBody("customer.subscription.deleted",
                            RouteSubscription("canceled"), Null, Null),
                  secret, sig_header, settings, NoApi, TRUE, TRUE) :
            secret \in Secrets, sig_header \in SignatureHeaders,
            settings \in Settings}

\* The observation of a request: as a delivery, with what process_event
\* raised, the engine's lifetime, the payment tracking and the invitations
\* as the request found them.
ObserveRequest(event, res) ==
    [raised |-> res.raised, constructed |-> res.constructed,
     closed |-> res.closed, tracked |-> res.tracked,
     tracking_failed |-> res.tracking_failed, before |-> invitations]
    @@ ObserveDelivery("stripe_webhook", event, res)

Responded(event, res) ==
    /\ store' = res.ctx.store
    /\ invitations' = res.rows
    /\ last' = ObserveRequest(event, res)
    /\ UNCHANGED <<now, tz, config, focus, replica, run, user_subscriptions, handlers, service>>

\* A request posted to the route.
StripeWebhookRequest ==
    \E q \in Requests :
      Responded(q.payload.event,
                stripe_webhook_route(NewCtx, invitations, q.settings,
                                     q.payload, q.sig_header, q.api,
                                     q.store_up, q.db_up))

\* The application with its invitations issued and nothing synchronised;
\* the engine configured as the route configures it.
InitRoute ==
    /\ store = EmptyStore
    /\ now = 0
    /\ tz = 0
    /\ focus = "subscription"
    /\ config \in Configs({{}}, {FALSE})
    /\ last = Observe("init", NoEvent, [ctx |-> NewCtx, refetched |-> FALSE])
    /\ replica = NoReplica
    /\ run = NoRun
    /\ user_subscriptions = <<>>
    /\ handlers = <<>>
    /\ invitations \in Invitations
    /\ service = NoService

NextRoute == StripeWebhookRequest

SpecRoute == InitRoute /\ [][NextRoute]_vars

\* C34: the route answers 200 only for a verified delivery whose
\* process_event returned without raising; when process_event raises (an
\* event type without a handler, a store failure) the answer is 500 and
\* payment tracking is not run; whenever the engine was constructed its
\* database client is closed by the time of the answer.
C34_RouteOutcome ==
    last.op = "stripe_webhook" =>
        /\ last.status = 200 =>
              /\ last.verification = "verified"
              /\ last.constructed
              /\ last.raised = "none"
        /\ (last.constructed /\ last.raised # "none") =>
              last.status = 500 /\ ~last.tracked
        /\ last.constructed => last.closed
        /\ last.tracked => last.status = 200

C34_Witness ==
    /\ last.op = "stripe_webhook"
    /\ last.constructed
    /\ last.raised = "store_error"
    /\ last.status = 500
    /\ last.closed
    /\ ~last.tracked
    /\ \E k \in DOMAIN invitations : invitations[k].payment_completed


\* The event of the request just answered is one of the given types, and
\* the answer was 200.
Processed(l, types) ==
    l.op = "stripe_webhook" /\ l.status = 200 /\ l.type \in types

\* C35: once the route has processed customer.subscription.deleted or
\* customer.subscription.paused for a subscription, no invitation linked to
\* that subscription has its payment completed; a payment becomes completed
\* only by a processed customer.subscription.created or
\* customer.subscription.updated event in status active or trialing, for an
\* invitation that requires payment and matches the subscription or its
\* customer; an error inside payment tracking leaves the invitations as
\* they were and the answer at 200.
C35_InvitationPaymentState ==
    [][/\ (/\ Processed(last', {"customer.subscription.deleted",
                                "customer.subscription.paused"})
           /\ ~last'.tracking_failed)
          => \A k \in DOMAIN invitations' :
                invitations'[k].stripe_subscription_id = last'.object.id
                   => ~invitations'[k].payment_completed
       /\ \A k \in DOMAIN invitations :
             (~invitations[k].payment_completed
                 /\ invitations'[k].payment_completed)
             => /\ Processed(last', {"customer.subscription.created",
                                     "customer.subscription.updated"})
                /\ last'.object.status \in {"active", "trialing"}
                /\ invitations[k].requires_payment
                /\ \/ invitations[k].stripe_subscription_id = last'.object.id
                   \/ invitations[k].stripe_customer_id
                         = last'.object.customer
       /\ (last'.op = "stripe_webhook" /\ last'.tracking_failed)
          => invitations' = invitations /\ last'.status = 200]_vars

\* A completed payment cancelled by a processed pause of the subscription.
C35_Witness ==
    /\ Processed(last, {"customer.subscription.paused"})
    /\ ~last.tracking_failed
    /\ \E k \in DOMAIN invitations :
          /\ last.before[k].payment_completed
          /\ last.before[k].stripe_subscription_id = last.object.id
          /\ ~invitations[k].payment_completed


----------------------------------------------------------------------------
(* The engine of the process: StripeService, the connect and disconnect    *)
(* routes, and the scheduled backfill task                                 *)

\* The engines one process constructs in a behaviour.
MaxEngines == 3

\* StripeService._extract_webhook_secret: the secret of the first webhook
\* of the JSON array, None without one.
_extract_webhook_secret(stripe_webhooks_json) ==
    IF stripe_webhooks_json \in {Null, "unparsable", "no_secret"} THEN Null
    ELSE stripe_webhooks_json

\* StripeService._get_setting: the value saved, the default without one or
\* with the database down (no environment variable is set).
_get_setting(s, key, db_up) == IF db_up THEN s[key] ELSE Null

\* What a call on the service ends with: the service and the value
\* returned.
Returning(s, returned) == [service |-> s, returned |-> returned]

\* StripeService.initialize: engine_up tells whether StripeSync(config)
\* returns an engine or raises.
initialize(s, db_up, engine_up) ==
    IF s.instance # 0 THEN Returning(s, TRUE)
    ELSE LET stripe_secret_key == _get_setting(s, "stripe_secret_key", db_up)
             webhook_secret ==
                 _extract_webhook_secret(
                     _get_setting(s, "stripe_webhooks", db_up))
             stripe_enabled == _get_setting(s, "stripe_enabled", db_up)
         IN  IF stripe_secret_key = Null \/ webhook_secret = Null
             THEN Returning(s, FALSE)
             ELSE IF stripe_enabled \in {"False", "false", "0"}
             THEN Returning(s, FALSE)
             ELSE IF ~engine_up THEN Returning(s, FALSE)
             ELSE Returning([s EXCEPT !.instance = s.engines + 1,
                                      !.engines = s.engines + 1], TRUE)

\* StripeService.reset
reset(s) == [s EXCEPT !.instance = 0]

\* StripeService.is_configured
is_configured(s, db_up) ==
    /\ db_up
    /\ s.stripe_connected \in {"True", "true", "1"}
    /\ s.stripe_secret_key # Null
    /\ _extract_webhook_secret(s.stripe_webhooks) # Null

\* What a route of the settings ends with: the service and the HTTP status.
Replied(s, status) == [service |-> s, status |-> status]

\* POST /stripe/connect
connect_stripe(s, api_key, db_up, engine_up) ==
    IF api_key = "" THEN Replied(s, 400)
    ELSE IF ~db_up THEN Replied(s, 500)
    ELSE Replied(
             [initialize(reset([s EXCEPT !.stripe_connected = "True",
                                         !.stripe_secret_key = api_key]),
                         db_up, engine_up).service
                 EXCEPT !.disconnected = FALSE],
             200)

\* POST /stripe/disconnect
disconnect_stripe(s, db_up) ==
    IF ~db_up THEN Replied(s, 500)
    ELSE Replied([reset(s) EXCEPT
                     !.disconnected = TRUE,
                     !.stripe_connected = IF @ = Null THEN Null ELSE "False"],
                 200)

\* What a run of the task ends with: the backfill it invoked (with invoked
\* FALSE, none), and the exception that left the task.
TaskDone(b, invoked, propagated) ==
    [b |-> b, invoked |-> invoked, propagated |-> propagated]

\* sync_backfill not reached.
NoBackfill(c) ==
    [ctx |-> c, ran |-> <<>>, result |-> [key \in SyncBackfillKeys |-> None]]

\* A faulty variant: the task runs the backfill on whatever engine the
\* process holds, connected or not.
BackfillInvokedUnconnected(s, db_up) == db_up /\ s.instance # 0

\* The checks of the task in front of sync_backfill: the application is
\* connected, the service configured, and the process holds an engine.
BackfillInvoked(s, db_up) ==
    /\ db_up
    /\ s.stripe_connected \in {"True", "true", "1"}
    /\ is_configured(s, db_up)
    /\ s.instance # 0

\* except Exception: the error is logged and the task returns.
Caught(err) == "none"

\* The task after sync_backfill returned or raised.
Invoked(b) == TaskDone(b, TRUE, Caught(b.ctx.err))

\* stripe_backfill(app): without an application (in_context tells whether
\* there is a current one to fall back on) the task returns; an exception
\* of the settings query or of sync_backfill is logged.
stripe_backfill(c, s, app, in_context, db_up, api) ==
    IF app = Null /\ ~in_context THEN TaskDone(NoBackfill(c), FALSE, "none")
    ELSE IF ~db_up THEN TaskDone(NoBackfill(c), FALSE, Caught("db_error"))
    ELSE IF ~BackfillInvoked(s, db_up)
    THEN TaskDone(NoBackfill(c), FALSE, "none")
    ELSE Invoked(sync_backfill(c, [object |-> "all",
                                   backfill_related_entities |-> "None"],
                               api))

\* The observation of a call on the service, of a settings route or of a
\* run of the task: the value returned or the HTTP status, whether
\* sync_backfill was invoked and how it ended, the exception that left the
\* task, and the service as the call found it.
ObserveService(op, returned, status, task) ==
    [op |-> op, type |-> Null, at |-> now, returned |-> returned,
     status |-> status, invoked |-> task.invoked, err |-> task.b.ctx.err,
     ran |-> task.b.ran, propagated |-> task.propagated, before |-> service]

Idle == TaskDone(NoBackfill(NewCtx), FALSE, "none")

\* StripeService.initialize called by the application.
Initialize ==
    \E db_up \in BOOLEAN, engine_up \in BOOLEAN :
      /\ service.engines < MaxEngines
      /\ service' = initialize(service, db_up, engine_up).service
      /\ last' = ObserveService(
                     "initialize",
                     initialize(service, db_up, engine_up).returned, Null,
                     Idle)
      /\ UNCHANGED <<store, now, tz, config, focus, replica, run, user_subscriptions, handlers, invitations>>

ConnectStripe ==
    \E api_key \in {"", "sk_1"}, db_up \in BOOLEAN, engine_up \in BOOLEAN :
      /\ service.engines < MaxEngines
      /\ service' = connect_stripe(service, api_key, db_up, engine_up).service
      /\ last' = ObserveService(
                     "connect_stripe", Null,
                     connect_stripe(service, api_key, db_up, engine_up).status,
                     Idle)
      /\ UNCHANGED <<store, now, tz, config, focus, replica, run, user_subscriptions, handlers, invitations>>

DisconnectStripe ==
    \E db_up \in BOOLEAN :
      /\ service' = disconnect_stripe(service, db_up).service
      /\ last' = ObserveService("disconnect_stripe", Null,
                                disconnect_stripe(service, db_up).status, Idle)
      /\ UNCHANGED <<store, now, tz, config, focus, replica, run, user_subscriptions, handlers, invitations>>

Ran(task) ==
    /\ store' = task.b.ctx.store
    /\ last' = ObserveService("stripe_backfill", Null, Null, task)
    /\ UNCHANGED <<now, tz, config, focus, replica, run, user_subscriptions, handlers, invitations, service>>

\* The scheduler running the task: the source has nothing to list, or its
\* first listing fails.
StripeBackfill ==
    \E app \in {Null, "app"}, in_context \in BOOLEAN, db_up \in BOOLEAN,
       failing \in {Null, "products"} :
      Ran(stripe_backfill(NewCtx, service, app, in_context, db_up,
                          BackfillApi({}, failing)))

\* The application before it is connected, with its webhooks configured or
\* not and the integration switched off or not.
InitService ==
    /\ store = EmptyStore
    /\ now = 0
    /\ tz = 0
    /\ focus = "customer"
    /\ config \in Configs({{}}, {FALSE})
    /\ last = Observe("init", NoEvent, [ctx |-> NewCtx, refetched |-> FALSE])
    /\ replica = NoReplica
    /\ run = NoRun
    /\ user_subscriptions = <<>>
    /\ handlers = <<>>
    /\ invitations = <<>>
    /\ \E webhooks \in {Null, "unparsable", "no_secret", "whsec_1"},
          enabled \in {Null, "False"} :
         service = [NoService EXCEPT !.stripe_webhooks = webhooks,
                                     !.stripe_enabled = enabled]

NextService == Initialize \/ ConnectStripe \/ DisconnectStripe \/ StripeBackfill

SpecService == InitService /\ [][NextService]_vars

\* C36: a call of initialize made while the process holds an engine
\* returns True and keeps that engine, constructing none; a disconnect that
\* succeeded leaves the process without an engine; from then until a
\* connect succeeds the backfill task does not invoke sync_backfill; no
\* exception leaves the task.
C36_EngineLifecycle ==
    /\ (last.op = "initialize" /\ last.before.instance # 0)
          => last.returned /\ service = last.before
    /\ (last.op = "disconnect_stripe" /\ last.status = 200)
          => service.instance = 0
    /\ last.op = "stripe_backfill"
          => /\ last.invoked => ~service.disconnected
             /\ last.propagated = "none"

\* The task invoked sync_backfill, which raised, on an engine constructed
\* after a disconnect.
C36_Witness ==
    /\ last.op = "stripe_backfill"
    /\ last.invoked
    /\ last.err # "none"
    /\ service.instance > 1


----------------------------------------------------------------------------
(* SubscriptionService: every call that sets the status of a subscription  *)

\* UserSubscription.query.get, then the status is set; ValueError without
\* the row.
SetStatus(rows, subscription_id, status) ==
    IF subscription_id \notin 1..Len(rows)
    THEN ServiceResult(rows, "ValueError", 0)
    ELSE ServiceResult([rows EXCEPT ![subscription_id].status = status],
                       "none", subscription_id)

cancel_subscription(rows, subscription_id) ==
    SetStatus(rows, subscription_id, "cancelled")

expire_subscription(rows, subscription_id) ==
    SetStatus(rows, subscription_id, "expired")

CancelSubscription ==
    \E subscription_id \in 1..(Len(user_subscriptions) + 1) :
      Served("cancel_subscription", [subscription_id |-> subscription_id],
             cancel_subscription(user_subscriptions, subscription_id))

ExpireSubscription ==
    \E subscription_id \in 1..(Len(user_subscriptions) + 1) :
      Served("expire_subscription", [subscription_id |-> subscription_id],
             expire_subscription(user_subscriptions, subscription_id))

NextStatus ==
    \/ CreateSubscription
    \/ CancelSubscription
    \/ ExpireSubscription
    \/ UpdateFromStripe

SpecStatus == InitTier /\ [][NextStatus]_vars

\* C37: whatever calls of create_subscription, cancel_subscription,
\* expire_subscription and update_from_stripe have been made, no user has
\* more than one subscription with status 'active'.
C37_AtMostOneActive ==
    \A user_id \in Users :
        Cardinality(ActiveOf(user_subscriptions, user_id)) <= 1

====
